---------------------------- MODULE Spec2Model ----------------------------
(***************************************************************************)
(* Model of the table reconstruction and quality-filtering pipeline of     *)
(* src/data/data_processing/extract_tables.py.                             *)
(*                                                                         *)
(* Text is modelled as a sequence of tokens (a token is a TLA+ string: a   *)
(* citation marker, a word, a blank, ...), so that searching, replacing,   *)
(* stripping and joining are computed and not assumed.                     *)
(*                                                                         *)
(* The module holds several specifications over one set of variables:      *)
(*   SpecPool      main() in multi-process mode                            *)
(*   SpecRef       split_references_column on one data frame               *)
(*   SpecFilter    get_high_quality_tables on a list of records            *)
(*   SpecAssemble  create_dataset followed by get_high_quality_tables      *)
(*   SpecSoup      soup_to_json on one parsed table                        *)
(*   SpecMap       get_table_row_bib_map on one column map                 *)
(*   SpecExtract   extract_valid_tables on one file                        *)
(*   SpecPrune     get_high_quality_tables, captions and removed rows      *)
(*   SpecAspect    get_aspect_type on one column                           *)
(* A specification leaves the variables of the others at their idle value. *)
(***************************************************************************)
EXTENDS Integers, Sequences, FiniteSets, TLC

VARIABLES
    \* ---- main(), multi-process mode
    listing,    \* os.listdir(args.in_path): the directory's names, in its order
    results,    \* the tasks handed to the pool so far (file names, in order)
    wst,        \* per task: the state of the run() call working on it
    mainpc,     \* where the parent process is
    idx,        \* the parent's loop index (into listing, then into results)
    \* ---- split_references_column
    df,         \* the data frame handed to split_references_column
    refOut,     \* what it returned (or the error it raised)
    \* ---- get_high_quality_tables
    hqIn,       \* valid_tables_with_jsons
    hqFlags,    \* filters
    hqOut,      \* high_quality_tables (or the error raised)
    \* ---- create_dataset
    labeled,    \* labeled_tables
    ti,         \* index of the table the loop is at
    dataset,    \* dataset
    skipped,    \* skipped_table_hashes
    cdpc,       \* where create_dataset is
    \* ---- soup_to_json
    soup,       \* table_soup: the tr elements of the parsed table
    json,       \* what soup_to_json returned (or that it raised)
    \* ---- get_table_row_bib_map
    mapIn,      \* the first column of table_json, and bib_hashes
    mapOut,     \* the list returned (or that it raised)
    \* ---- extract_valid_tables
    extractIn,  \* the papers of the file, table_filters and label_tables
    extract,    \* the locals of the call: where the loops are, added_tables,
                \* filtered_tables, valid_tables, and the predicates called
    \* ---- get_aspect_type
    aspectIn,   \* the column handed to get_aspect_type
    aspectOut   \* the label returned

poolVars == <<listing, results, wst, mainpc, idx>>
refVars  == <<df, refOut>>
hqVars   == <<hqIn, hqFlags, hqOut>>
cdVars   == <<labeled, ti, dataset, skipped, cdpc>>
soupVars == <<soup, json>>
mapVars  == <<mapIn, mapOut>>
extractVars == <<extractIn, extract>>
aspectVars == <<aspectIn, aspectOut>>
auxVars  == <<soupVars, mapVars, extractVars, aspectVars>>
vars     == <<listing, results, wst, mainpc, idx, df, refOut,
              hqIn, hqFlags, hqOut, labeled, ti, dataset, skipped, cdpc,
              soup, json, mapIn, mapOut, extractIn, extract,
              aspectIn, aspectOut>>

None == "None"

Range(s) == {s[i] : i \in DOMAIN s}

PoolIdle == /\ listing = <<>> /\ results = <<>> /\ wst = <<>>
            /\ mainpc = "idle" /\ idx = 0
RefNone  == [done |-> FALSE, err |-> FALSE, df |-> <<>>, old |-> <<>>]
RefIdle  == df = <<>> /\ refOut = RefNone
HqNone   == [done |-> FALSE, tables |-> <<>>]
HqIdle   == hqIn = <<>> /\ hqFlags = <<>> /\ hqOut = HqNone
CdIdle   == /\ labeled = <<>> /\ ti = 0 /\ dataset = <<>>
            /\ skipped = <<>> /\ cdpc = "idle"
NotRun   == [done |-> FALSE]
SoupIdle == soup = <<>> /\ json = NotRun
MapIdle  == mapIn = <<>> /\ mapOut = NotRun
ExtractIdle == extractIn = <<>> /\ extract = <<>>
AspectIdle == aspectIn = <<>> /\ aspectOut = None
AuxIdle  == SoupIdle /\ MapIdle /\ ExtractIdle /\ AspectIdle

(***************************************************************************)
(*                                  Text                                   *)
(***************************************************************************)

\* The citation markers: each matches the pattern {{cite:[a-f\d]{7}}} of
\* lines 346, 362 and 639, and carries its 7-character short key.
Markers == {"{{cite:abc1234}}", "{{cite:def5678}}", "{{cite:0000000}}"}

\* Group 1 of {{cite:([a-f\d]{7})}}: the short key a marker carries.
KeyOf(m) ==
    CASE m = "{{cite:abc1234}}" -> "abc1234"
      [] m = "{{cite:def5678}}" -> "def5678"
      [] m = "{{cite:0000000}}" -> "0000000"

\* The full citation keys (the sha attribute of a cit element).
FullKeys == {"abc1234aaaa", "abc1234bbbb", "def5678aaaa"}

\* bib_ref[:7]
First7(k) ==
    CASE k = "abc1234aaaa" -> "abc1234"
      [] k = "abc1234bbbb" -> "abc1234"
      [] k = "def5678aaaa" -> "def5678"

Digits == <<"0", "1", "2", "3", "4", "5", "6", "7", "8", "9">>

\* str(n) of a small number n
Str(n) == Digits[n + 1]

Dash == <<"-">>

IsBlank(t) == t = " "

RECURSIVE LStrip(_)
LStrip(text) ==
    IF text # <<>> /\ IsBlank(Head(text)) THEN LStrip(Tail(text)) ELSE text

RECURSIVE RStrip(_)
RStrip(text) ==
    IF text # <<>> /\ IsBlank(text[Len(text)])
      THEN RStrip(SubSeq(text, 1, Len(text) - 1))
      ELSE text

\* str.strip()
Strip(text) == RStrip(LStrip(text))

\* re.search("{{cite:[a-f\d]{7}}}", text) is not None
HasMarker(text) == \E i \in DOMAIN text : text[i] \in Markers

\* matches[0]: the first marker of the text
FirstMarker(text) ==
    text[CHOOSE i \in DOMAIN text :
            /\ text[i] \in Markers
            /\ \A j \in 1..(i - 1) : text[j] \notin Markers]

\* str.replace(tok, ""): every occurrence goes
RemoveAll(text, tok) == SelectSeq(text, LAMBDA t : t # tok)

\* "".join / "\t".join / "\n".join of a list of texts
RECURSIVE Join(_, _)
Join(sep, texts) ==
    IF texts = <<>> THEN <<>>
    ELSE IF Len(texts) = 1 THEN texts[1]
    ELSE texts[1] \o sep \o Join(sep, Tail(texts))

(***************************************************************************)
(*              Data frames and split_references_column                    *)
(*                                                                         *)
(* A data frame is the sequence of its columns, [name, vals]: pandas keeps *)
(* columns of the same name apart, and so does the sequence.               *)
(***************************************************************************)

References == <<"References">>
References_OLD == <<"References_OLD">>

ColNames(tdf) == [i \in DOMAIN tdf |-> tdf[i].name]

\* DataFrame.rename(columns={old: new}): every column of that name
Rename(tdf, old, new) ==
    [i \in DOMAIN tdf |->
        IF tdf[i].name = old THEN [tdf[i] EXCEPT !.name = new] ELSE tdf[i]]

\* table_df[name] = vals for a name the frame has: pandas writes the values
\* into every column of that name
SetItem(tdf, name, vals) ==
    [i \in DOMAIN tdf |->
        IF tdf[i].name = name THEN [tdf[i] EXCEPT !.vals = vals] ELSE tdf[i]]

\* table_df[labels]: for each label in turn, every column of that name
RECURSIVE GetItems(_, _)
GetItems(tdf, labels) ==
    IF labels = <<>> THEN <<>>
    ELSE SelectSeq(tdf, LAMBDA c : c.name = Head(labels))
            \o GetItems(tdf, Tail(labels))

\* lines 344-348: the number of cells of a column that hold a marker
NumCites(col) == Cardinality({r \in DOMAIN col.vals : HasMarker(col.vals[r])})

\* lines 341-351 with >= for >: the last of the columns with the highest count
ColumnWithCitesLast(tdf) ==
    CHOOSE i \in DOMAIN tdf :
        /\ \A j \in DOMAIN tdf : NumCites(tdf[j]) <= NumCites(tdf[i])
        /\ \A j \in (i + 1)..Len(tdf) : NumCites(tdf[j]) < NumCites(tdf[i])

\* lines 341-351: the position of the column with the most marker cells; the
\* comparison is strict, so the first of the columns with the highest count
ColumnWithCites(tdf) ==
    CHOOSE i \in DOMAIN tdf :
        /\ \A j \in DOMAIN tdf : NumCites(tdf[j]) <= NumCites(tdf[i])
        /\ \A j \in 1..(i - 1) : NumCites(tdf[j]) < NumCites(tdf[i])

\* The reference of a marker-less cell as a mutant would give it: a dash.
NoCiteRefDash(vals, r) == Dash

\* lines 363-366: f"no_cite-{no_cite_count}", the count being the number of
\* marker-less cells above row r
NoCiteRef(vals, r) ==
    <<"no_cite-", Str(Cardinality({q \in 1..(r - 1) : ~HasMarker(vals[q])}))>>

\* lines 361-368: references_col
ReferencesCol(vals) ==
    [r \in DOMAIN vals |->
        IF HasMarker(vals[r]) THEN <<FirstMarker(vals[r])>>
                              ELSE NoCiteRef(vals, r)]

\* The cell a marker-bearing cell leaves behind, as a mutant would compute
\* it: the marker is not taken out.
CellWithoutCiteKeepsMarker(cell) == cell

\* lines 365, 369-372: the cell left in the source column
CellWithoutCite(cell) ==
    IF ~HasMarker(cell) THEN cell
    ELSE LET new_cell_val == RemoveAll(cell, FirstMarker(cell))
         IN  Strip(IF new_cell_val = <<>> THEN Dash ELSE new_cell_val)

\* lines 359-372: new_column_without_cites
NewColumnWithoutCites(vals) == [r \in DOMAIN vals |-> CellWithoutCite(vals[r])]

RefError == [done |-> TRUE, err |-> TRUE, df |-> <<>>, old |-> <<>>]
RefOk(tdf, old) == [done |-> TRUE, err |-> FALSE, df |-> tdf, old |-> old]

\* lines 334-398: split_references_column. A frame without columns makes
\* iloc[:, 0] raise; insert raises when a column is already named References.
SplitReferencesColumn(tdf) ==
    IF tdf = <<>> THEN RefError
    ELSE
    LET src     == tdf[ColumnWithCites(tdf)]
        refs    == ReferencesCol(src.vals)
        newvals == NewColumnWithoutCites(src.vals)
    IN  IF \E r \in DOMAIN newvals : newvals[r] # Dash
          THEN LET oldname == IF src.name = References THEN References_OLD
                                                        ELSE src.name
                   kept == IF src.name = References
                             THEN SetItem(Rename(tdf, References, References_OLD),
                                          References_OLD, newvals)
                             ELSE SetItem(tdf, src.name, newvals)
               IN  IF \E i \in DOMAIN kept : kept[i].name = References
                     THEN RefError
                     ELSE RefOk(<<[name |-> References, vals |-> refs]>> \o kept,
                                oldname)
          ELSE LET renamed == Rename(tdf, src.name, References)
                   others  == SelectSeq(ColNames(renamed),
                                        LAMBDA n : n # References)
               IN  RefOk(GetItems(renamed, <<References>> \o others), src.name)

\* ---- SpecRef: split_references_column applied to one data frame

\* Bound: the number of rows of the frames tried.
RefRows == 2

\* Cells as postprocess_table_df hands them over (process_cell has stripped
\* them and put a dash for an empty one).
RefCells == { <<"{{cite:abc1234}}">>, <<"{{cite:def5678}}", "bar">>, <<"bar">>, Dash }
RefNames == { <<"A">>, <<"B">>, References }

RefColumns == [name : RefNames, vals : [1..RefRows -> RefCells]]
RefFiller  == [name : RefNames, vals : {[r \in 1..RefRows |-> <<"x">>]}]

\* Frames of two columns, and of three with a column of plain text.
RefFrames ==
    { <<a, b>> : a \in RefColumns, b \in RefColumns }
        \cup { <<a, b, c>> : a \in RefColumns, b \in RefColumns, c \in RefFiller }

InitRef ==
    /\ df \in RefFrames
    /\ refOut = RefNone
    /\ PoolIdle /\ HqIdle /\ CdIdle /\ AuxIdle

\* postprocess_table_df, line 467: the call of split_references_column.
RunSplit ==
    /\ ~refOut.done
    /\ df # <<>>
    /\ refOut' = SplitReferencesColumn(df)
    /\ UNCHANGED <<df, poolVars, hqVars, cdVars, auxVars>>

NextRef == RunSplit

SpecRef == InitRef /\ [][NextRef]_vars

\* The rows whose source-column cell is one marker followed by marker-free
\* text, as in "{{cite:abc1234}}bar".
MarkerThenTextRows ==
    LET vals == df[ColumnWithCites(df)].vals
    IN  { r \in DOMAIN vals :
            /\ Len(vals[r]) >= 2
            /\ vals[r][1] \in Markers
            /\ ~HasMarker(Tail(vals[r]))
            /\ Strip(Tail(vals[r])) # <<>> }

SourceCell(r) == df[ColumnWithCites(df)].vals[r]

\* The source column keeps the text behind the marker in row r.
SourceKeepsText(r) ==
    /\ \E c \in DOMAIN refOut.df : refOut.df[c].name = refOut.old
    /\ \A c \in DOMAIN refOut.df :
          refOut.df[c].name = refOut.old
              => refOut.df[c].vals[r] = Strip(Tail(SourceCell(r)))

\* The keys a marker stands for: its short key and the full keys it resolves to.
KeysOfMarker(m) ==
    {<<KeyOf(m)>>} \cup {<<k>> : k \in {f \in FullKeys : First7(f) = KeyOf(m)}}

AllCellsAreMarkers ==
    \A r \in DOMAIN df[ColumnWithCites(df)].vals :
        /\ Len(SourceCell(r)) = 1
        /\ SourceCell(r)[1] \in Markers

\* C10: when every cell of the source column is exactly a marker, the source
\* column is renamed References and moved first with its values unchanged,
\* and the frame has as many columns after extraction as before.
C10_SourceColumnBecomesReferences ==
    (refOut.done /\ AllCellsAreMarkers) =>
        /\ ~refOut.err
        /\ Len(refOut.df) = Len(df)
        /\ refOut.df[1] = [name |-> References,
                           vals |-> df[ColumnWithCites(df)].vals]
        /\ \A c \in 2..Len(refOut.df) : refOut.df[c] \in Range(df)

\* ---- The source column (lines 340-354)

\* The number of cells of column c of the frame that hold a marker
MarkerCells(c) == Cardinality({r \in DOMAIN df[c].vals : HasMarker(df[c].vals[r])})

HighestCount ==
    CHOOSE n \in {MarkerCells(c) : c \in DOMAIN df} :
        \A c \in DOMAIN df : MarkerCells(c) <= n

\* The leftmost of the columns with the highest count (column 0 of the
\* code, position 1 here, when no column holds a marker)
LeftmostHighest ==
    CHOOSE c \in DOMAIN df :
        /\ MarkerCells(c) = HighestCount
        /\ \A b \in 1..(c - 1) : MarkerCells(b) # HighestCount

\* The result was made from column c: the name handed back is the
\* column's (References_OLD for a column named References), and a column
\* named References holds what the cells of c give
MadeFromColumn(c) ==
    /\ refOut.old \in {df[c].name, References_OLD}
    /\ refOut.old = References_OLD => df[c].name = References
    /\ \E o \in DOMAIN refOut.df :
          /\ refOut.df[o].name = References
          /\ refOut.df[o].vals \in {ReferencesCol(df[c].vals), df[c].vals}

\* C20: the source column is, by position, the column with the highest
\* number of marker-bearing cells, the leftmost one when several columns
\* have that number, and the first column when no column holds a marker.
C20_LeftmostHighestIsSource ==
    (refOut.done /\ ~refOut.err) => MadeFromColumn(LeftmostHighest)

\* Two columns tie for the highest count, and the result tells which of
\* them was taken.
C20_Witness ==
    /\ refOut.done /\ ~refOut.err
    /\ HighestCount >= 1
    /\ \E c \in DOMAIN df :
          /\ c # LeftmostHighest
          /\ MarkerCells(c) = HighestCount
          /\ ~MadeFromColumn(c)

\* No column holds a marker, and the result is made from the first column
\* and from no other.
C20_WitnessNoMarker ==
    /\ refOut.done /\ ~refOut.err
    /\ HighestCount = 0
    /\ \A c \in DOMAIN df : c # 1 => ~MadeFromColumn(c)

\* ---- A column already named References (lines 374-398)

\* A column of the frame other than the source column is named References
OtherReferencesColumn ==
    \E c \in DOMAIN df : c # LeftmostHighest /\ df[c].name = References

\* C21: when a column that is not the source column is already named
\* References, that column is renamed to References_OLD and the call
\* completes: no error is raised, and the result has exactly one column
\* named References, the first one.
C21_OtherReferencesColumnRenamed ==
    (refOut.done /\ OtherReferencesColumn) =>
        /\ ~refOut.err
        /\ refOut.df[1].name = References
        /\ Cardinality({o \in DOMAIN refOut.df : refOut.df[o].name = References}) = 1
        /\ \E o \in DOMAIN refOut.df : refOut.df[o].name = References_OLD

(***************************************************************************)
(*                 get_aspect_type (summarize_dataset.py)                  *)
(***************************************************************************)

\* Tokens by what the patterns of the code find in them.
FormulaToks == {"{{formula:1}}"}          \* hold "{{formula:"
FigureToks  == {"{{figure:1}}"}           \* hold "{{figure"
FloatToks   == {".5", ".7"}               \* FLOAT_REGEX, \.\d, finds a match
NumberToks  == {"3", "5", "2021", ".5", ".7"}   \* float() parses them
DigitToks   == {"3", "5", "2021"}         \* digits only
UnitToks    == {"5k", "2hrs"}             \* units_regex or time_regex matches
BinaryToks  == {"yes", "no"}
NoCiteToks  == {"no_cite-"}               \* hold "no_cite"
HyphenToks  == {"-", "no_cite-", "Task-F1"}   \* hold "-"

\* summarize_dataset.is_numeric: blanks and the signs < $ ~ are dropped, then
\* the patterns are matched at the start of the value, or float() parses what
\* is left without commas and hyphens.
IsNumeric(value) ==
    LET v == SelectSeq(value, LAMBDA t : t \notin {" ", "<", "$", "~", "below"})
        w == SelectSeq(v, LAMBDA t : t \notin {",", "-"})
    IN  \/ (v # <<>> /\ Head(v) \in UnitToks)
        \/ (Len(w) = 1 /\ w[1] \in NumberToks)

\* summarize_dataset.is_binary
IsBinary(value) ==
    LET v == Strip(value) IN Len(v) = 1 /\ v[1] \in BinaryToks

\* summarize_dataset.is_na
IsNaValue(value) ==
    SelectSeq(value, LAMBDA t : t \notin {" ", "~"}) \in {Dash, <<"n/a">>}

\* len(val.split()): the number of runs of tokens between blanks
WordCount(value) ==
    Cardinality({i \in DOMAIN value :
                    /\ ~IsBlank(value[i])
                    /\ (i = 1 \/ IsBlank(value[i - 1]))})

\* The last step of get_aspect_type as a mutant would have it: half of the
\* values being long is enough.
GenOrEntHalf(column) ==
    LET rated == {r \in DOMAIN column : ~IsNaValue(column[r])}
        long  == {r \in rated : WordCount(column[r]) > 4}
    IN  IF 2 * Cardinality(long) >= Cardinality(rated) THEN "gen" ELSE "ent"

\* lines 115-120: the length heuristic, gen or ent
GenOrEnt(column) ==
    LET rated == {r \in DOMAIN column : ~IsNaValue(column[r])}
        long  == {r \in rated : WordCount(column[r]) > 4}
    IN  IF 2 * Cardinality(long) > Cardinality(rated) THEN "gen" ELSE "ent"

\* summarize_dataset.get_aspect_type
GetAspectType(column) ==
    IF \E i \in DOMAIN column[1] : column[1][i] \in Markers THEN "cite"
    ELSE IF \A r \in DOMAIN column : IsNumeric(column[r]) \/ IsNaValue(column[r])
      THEN "num"
    ELSE IF \A r \in DOMAIN column : IsBinary(column[r]) \/ IsNaValue(column[r])
      THEN "bool"
    ELSE IF Cardinality(Range(column)) = 1 THEN "cat-uniq"
    ELSE IF Cardinality(Range(column)) # Len(column) THEN "cat"
    ELSE GenOrEnt(column)

\* ---- SpecAspect: get_aspect_type applied to one column

\* Bound: the number of values of the column.
MaxColumnLen == 3

LongText  == <<"this", " ", "is", " ", "a", " ", "long", " ", "sentence">>
LongText2 == <<"one", " ", "more", " ", "rather", " ", "long", " ", "sentence">>

\* The values a column is made of: numbers, the placeholder, yes and no,
\* short and long texts, a citation marker.
AspectValues ==
    { <<"3">>, <<"5">>, Dash, <<"yes">>, <<"no">>, <<"a">>, <<"x">>,
      LongText, LongText2, <<"{{cite:abc1234}}">> }

InitAspect ==
    /\ aspectIn \in UNION { [1..n -> AspectValues] : n \in 1..MaxColumnLen }
    /\ aspectOut = None
    /\ PoolIdle /\ RefIdle /\ HqIdle /\ CdIdle
    /\ SoupIdle /\ MapIdle /\ ExtractIdle

\* One call get_aspect_type(aspectIn).
Classify ==
    /\ aspectOut = None
    /\ aspectOut' = GetAspectType(aspectIn)
    /\ UNCHANGED <<aspectIn, poolVars, refVars, hqVars, cdVars,
                   soupVars, mapVars, extractVars>>

NextAspect == Classify

SpecAspect == InitAspect /\ [][NextAspect]_vars

\* The values of the column by kind, as the claim names them.
NumericValues     == {<<"3">>, <<"5">>}
BooleanValues     == {<<"yes">>, <<"no">>}
PlaceholderValues == {Dash}
LongValues        == {LongText, LongText2}    \* more than 4 whitespace tokens

\* The labels in their fixed order, each with whether the column matches it.
AspectMatches ==
    LET rated == {r \in DOMAIN aspectIn : aspectIn[r] \notin PlaceholderValues}
        long  == {r \in rated : aspectIn[r] \in LongValues}
    IN  << [label |-> "cite", hit |-> "{{cite:abc1234}}" \in Range(aspectIn[1])],
           [label |-> "num",
            hit |-> \A r \in rated : aspectIn[r] \in NumericValues],
           [label |-> "bool",
            hit |-> \A r \in rated : aspectIn[r] \in BooleanValues],
           [label |-> "cat-uniq", hit |-> Cardinality(Range(aspectIn)) = 1],
           [label |-> "cat", hit |-> Cardinality(Range(aspectIn)) < Len(aspectIn)],
           [label |-> "gen", hit |-> 2 * Cardinality(long) > Cardinality(rated)],
           [label |-> "ent", hit |-> TRUE] >>

\* The first label of the fixed order that matches.
FirstMatch ==
    AspectMatches[CHOOSE k \in DOMAIN AspectMatches :
                     /\ AspectMatches[k].hit
                     /\ \A m \in 1..(k - 1) : ~AspectMatches[m].hit].label

\* C27: for every non-empty column the classifier returns exactly one label,
\* the first that matches in the order citation, numeric, boolean,
\* constant-category, repeated-category, generative-text, entity-text;
\* ["3","5","-"] is numeric, ["yes","no"] boolean, ["a","a","a"]
\* constant-category, and a column of distinct values is generative-text
\* exactly when more than 50% of its non-placeholder values have more than 4
\* whitespace tokens, otherwise entity-text.
C27_FirstMatchingLabel ==
    aspectOut # None =>
        /\ aspectOut = FirstMatch
        /\ aspectIn = << <<"3">>, <<"5">>, Dash >> => aspectOut = "num"
        /\ aspectIn = << <<"yes">>, <<"no">> >> => aspectOut = "bool"
        /\ aspectIn = << <<"a">>, <<"a">>, <<"a">> >> => aspectOut = "cat-uniq"
        /\ aspectOut \in {"gen", "ent"} =>
              (aspectOut = "gen"
                 <=> 2 * Cardinality({r \in DOMAIN aspectIn :
                                        aspectIn[r] \in LongValues})
                       > Cardinality({r \in DOMAIN aspectIn :
                                        aspectIn[r] \notin PlaceholderValues}))

\* A column of three distinct values, one of them the placeholder and one
\* of the two others long (exactly 50%), is classified entity-text.
C27_Witness ==
    /\ aspectOut = "ent"
    /\ Len(aspectIn) = 3
    /\ Cardinality(Range(aspectIn)) = 3
    /\ Cardinality({r \in DOMAIN aspectIn : aspectIn[r] \in LongValues}) = 1
    /\ \E r \in DOMAIN aspectIn : aspectIn[r] \in PlaceholderValues

\* A column of distinct values, more than half of them long, is classified
\* generative-text.
C27_WitnessGen ==
    /\ aspectOut = "gen"
    /\ Len(aspectIn) = 3
    /\ Cardinality({r \in DOMAIN aspectIn : aspectIn[r] \in LongValues}) = 2

(***************************************************************************)
(*                        get_high_quality_tables                          *)
(*                                                                         *)
(* A record holds what the function reads: _table_hash, caption,           *)
(* in_text_ref, table_json.table_dict (cols: a dict, so the names are      *)
(* distinct), table_json.old_citation_column (old) and row_bib_map (rbm).  *)
(***************************************************************************)

DEFAULT_POST_JSON_FILTERS == <<"no_formula", "has_caption", "no_no_cite", "no_dup">>

NO_CAPTION == <<"NO_CAPTION">>

\* The corpus ids of the full-text files read at lines 805-812.
ValidCorpusIds == {11, 12}

\* The membership test as a mutant would have it: the flag heads the list.
HasAtHead(filters, flag) == filters # <<>> /\ filters[1] = flag

\* `flag in filters`
Has(filters, flag) == flag \in Range(filters)

AnyTok(text, toks) == \E i \in DOMAIN text : text[i] \in toks
CountTok(text, toks) == Cardinality({i \in DOMAIN text : text[i] \in toks})

\* lines 816-821: table_str
TableStr(cols) ==
    Join(<<"\n">>, [c \in DOMAIN cols |->
                      Join(<<"\t">>, <<cols[c].name>> \o cols[c].vals)])

ColByName(cols, name) == cols[CHOOSE c \in DOMAIN cols : cols[c].name = name]
HasCol(cols, name) == \E c \in DOMAIN cols : cols[c].name = name

\* str.lower() of a column name
Lower(name) ==
    [i \in DOMAIN name |->
        CASE name[i] = "Reference" -> "reference"
          [] name[i] = "Author" -> "author"
          [] OTHER -> name[i]]

RefNameSet == {<<"reference">>, <<"author">>, <<"reference-(5)">>,
               <<"author/reference">>}

GenericNames ==
    {<<"Venue">>, <<"Month">>, <<"Year">>, <<"No.">>, <<"Title">>, <<"URL">>,
     <<"Link">>, <<"Version">>, <<"Organiser">>, <<"Citations">>, <<"Pub.">>,
     <<"License">>, <<"Publication">>}

\* lines 823-862: the checks that drop a table before any row is looked at.
\* Line 828 reads (has_caption and caption == NO_CAPTION) or blank caption.
DropsEarly(t, filters) ==
    LET table_str == TableStr(t.cols)
    IN  \/ (Has(filters, "no_formula") /\ AnyTok(table_str, FormulaToks))
        \/ (Has(filters, "has_caption") /\ t.caption = NO_CAPTION)
        \/ Strip(t.caption) = <<>>
        \/ (Has(filters, "has_in_text_ref") /\ t.in_text_ref = <<>>)
        \/ (Has(filters, "no_no_cite") /\ AnyTok(table_str, NoCiteToks))
        \/ (Has(filters, "max_one_no_cite") /\ CountTok(table_str, NoCiteToks) > 1)
        \/ (Has(filters, "no_merged_headers")
              /\ \E c \in DOMAIN t.cols : AnyTok(t.cols[c].name, HyphenToks))
        \/ (\A r \in DOMAIN ColByName(t.cols, References).vals :
               Strip(ColByName(t.cols, References).vals[r]) = Dash)
        \/ (Has(filters, "no_missing_titles")
              /\ \E i \in DOMAIN t.rbm : t.rbm[i].title = None)
        \/ (Has(filters, "no_missing_abstracts")
              /\ \E i \in DOMAIN t.rbm : t.rbm[i].abstract = None)

\* lines 869-878: should_remove_row
ShouldRemoveRow(row, filters) ==
    \/ (Has(filters, "rows_no_missing_titles") /\ row.title = None)
    \/ (Has(filters, "rows_no_missing_abstracts") /\ row.abstract = None)
    \/ (Has(filters, "rows_no_missing_full_texts")
          /\ row.corpus_id \notin ValidCorpusIds)

\* lines 865-881: remove_rows, the row numbers of the entries taken out
RemoveRows(t, filters) ==
    {t.rbm[i].row : i \in {j \in DOMAIN t.rbm : ShouldRemoveRow(t.rbm[j], filters)}}

\* remove_unique_hashes as a mutant would have it: nothing is recorded.
RemoveUniqueHashesNone(t, filters) == {}

\* lines 866-878: remove_unique_hashes
RemoveUniqueHashes(t, filters) ==
    {t.rbm[i].id : i \in {j \in DOMAIN t.rbm : ShouldRemoveRow(t.rbm[j], filters)}}

\* lines 867-885: new_row_bib_map, the kept entries renumbered in list order
RECURSIVE NewRowBibMap(_, _, _)
NewRowBibMap(rbm, filters, acc) ==
    IF rbm = <<>> THEN acc
    ELSE IF ShouldRemoveRow(Head(rbm), filters)
      THEN NewRowBibMap(Tail(rbm), filters, acc)
      ELSE NewRowBibMap(Tail(rbm), filters,
                        Append(acc, [Head(rbm) EXCEPT !.row = Len(acc)]))

\* lines 888-898: too few rows left
TooFewRows(t, filters) ==
    LET refs == ColByName(t.cols, References).vals
    IN  \/ (Has(filters, "more_than_two_rows")
              /\ Len(refs) - Cardinality(RemoveRows(t, filters)) < 2)
        \/ (Has(filters, "more_than_two_uniq_rows")
              /\ Cardinality(Range(refs))
                   - Cardinality(RemoveUniqueHashes(t, filters)) < 2)

\* line 906: the cell is a dash, or a marker once "and" and commas are out
IsCiteOnlyCell(cell) ==
    \/ Strip(cell) = Dash
    \/ LET v == Strip(SelectSeq(cell, LAMBDA x : x \notin {"and", ","}))
       IN  v # <<>> /\ v[1] \in Markers

\* lines 902-974: whether the loop puts the column into remove_cols
InRemoveCols(t, col, filters) ==
    LET name == col.name
        cells == col.vals \o <<name>>
    IN  \/ \A r \in DOMAIN col.vals : IsCiteOnlyCell(col.vals[r])
        \/ (Len(name) = 1 /\ name[1] \in DigitToks)
        \/ (Has(filters, "cols_no_formula")
              /\ \E i \in DOMAIN cells : AnyTok(cells[i], FormulaToks))
        \/ (Has(filters, "cols_no_formula_colname") /\ AnyTok(name, FormulaToks))
        \/ (Has(filters, "cols_no_names") /\ Lower(name) \in RefNameSet)
        \/ (Has(filters, "col_no_generic") /\ name \in GenericNames)
        \/ (Has(filters, "cols_no_old_citation_col") /\ name = t.old)
        \/ (Has(filters, "cols_no_float")
              /\ \E i \in DOMAIN cells : AnyTok(cells[i], FloatToks))
        \/ (Has(filters, "cols_no_figure")
              /\ \E i \in DOMAIN cells : AnyTok(cells[i], FigureToks))
        \/ (Has(filters, "cols_no_numeric") /\ GetAspectType(col.vals) = "num")
        \/ (Has(filters, "cols_no_ent_or_gen")
              /\ GetAspectType(col.vals) \in {"gen", "ent"})

\* The test of line 981 as a mutant would make it: References is dropped
\* like any other column.
KeepsColumnNoGuard(t, col, filters) == ~InRemoveCols(t, col, filters)

\* line 981: a column stays unless it is in remove_cols and is not References
KeepsColumn(t, col, filters) ==
    ~(InRemoveCols(t, col, filters) /\ col.name # References)

\* line 984: the values of the rows that stay (row numbers start at 0)
KeepRows(vals, remove_rows) ==
    LET keep == {r \in DOMAIN vals : (r - 1) \notin remove_rows}
        F[i \in 0..Len(vals)] ==
            IF i = 0 THEN <<>>
            ELSE IF i \in keep THEN Append(F[i - 1], vals[i]) ELSE F[i - 1]
    IN  F[Len(vals)]

\* lines 979-984: new_table_dict
NewTableDict(t, filters) ==
    LET kept == SelectSeq(t.cols, LAMBDA c : KeepsColumn(t, c, filters))
    IN  [c \in DOMAIN kept |->
            [kept[c] EXCEPT !.vals = KeepRows(@, RemoveRows(t, filters))]]

\* The least number of columns as a mutant would have it: one column fewer.
MinColsLess(filters) ==
    IF Has(filters, "cols_no_ent_or_gen") \/ Has(filters, "cols_no_numeric")
      THEN 1 ELSE 2

\* line 987: min_rows, the least number of columns an emitted table has
MinCols(filters) ==
    IF Has(filters, "cols_no_ent_or_gen") \/ Has(filters, "cols_no_numeric")
      THEN 2 ELSE 3

\* The substitution as a mutant would have it: the markers stay.
SubCiteKeeps(text) == text

\* line 995: re.sub(r"{{cite:.{7}}}", "[cite]", ...)
SubCite(text) ==
    [i \in DOMAIN text |-> IF text[i] \in Markers THEN "[cite]" ELSE text[i]]

\* lines 993-999: table_str_no_refs, the signature of the pruned table
TableStrNoRefs(cols) ==
    LET rest == SelectSeq(cols, LAMBDA c : c.name # References)
    IN  Join(<<"\n">>, [c \in DOMAIN rest |->
                          SubCite(Join(<<"\t">>, <<rest[c].name>> \o rest[c].vals))])

\* Whether a signature counts as seen, as a mutant would have it: never.
SeenBeforeNever(sig, seen) == FALSE

\* line 1000: table_str_no_refs in seen_table_strs
SeenBefore(sig, seen) == sig \in seen

\* The record of the input list after one turn of the loop, as a mutant
\* would leave it: the pruned table_dict and row_bib_map are written into the
\* input record (no copy).
TableAfterNoCopy(t, rec) == rec

\* lines 883, 1005-1007: the turn writes into new_row, a copy of the mapping
\* entry, and into table_cp, a deep copy of the record; the record of the
\* input list is as it was.
TableAfter(t, rec) == t

\* lines 814-1008: one turn of the loop over the tables. keep tells whether
\* the table is appended to high_quality_tables, rec is the copy appended,
\* after is the record of the input list once the turn is over.
HqStep(t, filters, seen) ==
    LET new_table_dict == NewTableDict(t, filters)
        sig == TableStrNoRefs(new_table_dict)
        rec == [t EXCEPT !.cols = new_table_dict,
                         !.rbm = NewRowBibMap(t.rbm, filters, <<>>)]
    IN  IF \/ DropsEarly(t, filters)
           \/ TooFewRows(t, filters)
           \/ Len(new_table_dict) < MinCols(filters)
          THEN [keep |-> FALSE, rec |-> t, seen |-> seen, after |-> t]
        ELSE IF Has(filters, "no_dup") /\ SeenBefore(sig, seen)
          THEN [keep |-> FALSE, rec |-> t, seen |-> seen, after |-> t]
        ELSE [keep |-> TRUE, rec |-> rec,
              seen |-> IF Has(filters, "no_dup") THEN seen \cup {sig} ELSE seen,
              after |-> TableAfter(t, rec)]

\* lines 792-1010: get_high_quality_tables. out is the list returned,
\* tables the input list as the call leaves it.
RECURSIVE HqLoop(_, _, _, _, _)
HqLoop(todo, filters, seen, out, visited) ==
    IF todo = <<>> THEN [out |-> out, tables |-> visited]
    ELSE LET step == HqStep(Head(todo), filters, seen)
         IN  HqLoop(Tail(todo), filters, step.seen,
                    IF step.keep THEN Append(out, step.rec) ELSE out,
                    Append(visited, step.after))

GetHighQualityTables(tables, filters) == HqLoop(tables, filters, {}, <<>>, <<>>)

\* ---- SpecFilter: one call of get_high_quality_tables

\* Bound: the number of records handed to one call.
MaxHqTables == 3

Col(n, v) == [name |-> <<n>>, vals |-> v]

BibRow(k, r, cid, ttl, tp) ==
    [id |-> k, row |-> r, corpus_id |-> cid, type |-> tp,
     title |-> ttl, abstract |-> "abstract"]

M1 == <<"{{cite:abc1234}}">>
M2 == <<"{{cite:def5678}}">>
M3 == <<"{{cite:0000000}}">>

TwoRefs == << BibRow("abc1234aaaa", 0, 11, "title", "ref"),
              BibRow("def5678aaaa", 1, 12, "title", "ref") >>

HqRecord(h, cap, cols, rbm) ==
    [hash |-> h, caption |-> cap, in_text_ref |-> <<"section">>,
     cols |-> cols, old |-> <<"Method">>, rbm |-> rbm]

TaskCol   == Col("Task", <<<<"x">>, <<"y">>>>)
MetricCol == Col("Metric", <<<<"acc">>, <<"f1">>>>)

\* Records as create_dataset and populate_bib_entries leave them (every
\* mapping entry has its title and abstract keys, the value may be None).
HqRecords ==
    { \* three columns, two resolved rows
      HqRecord("t1", <<"cap">>, <<Col("References", <<M1, M2>>), TaskCol, MetricCol>>,
               TwoRefs),
      \* the same table but for its References values and keys
      HqRecord("t2", <<"cap">>, <<Col("References", <<M2, M1>>), TaskCol, MetricCol>>,
               << BibRow("def5678aaaa", 0, 12, "title", "ref"),
                  BibRow("abc1234bbbb", 1, 11, "title", "ref") >>),
      \* a column of decimal numbers
      HqRecord("t3", <<"cap">>,
               <<Col("References", <<M1, M2>>), TaskCol,
                 Col("Score", <<<<".5">>, <<".7">>>>)>>, TwoRefs),
      \* a row without a citation
      HqRecord("t4", <<"cap">>,
               <<Col("References", <<M1, <<"no_cite-", "0">>>>),
                 Col("Method", <<<<"-">>, <<"Ours">>>>), TaskCol>>,
               << BibRow("abc1234aaaa", 0, 11, "title", "ref"),
                  BibRow("2308.00001", 1, 12, "title", "ours") >>),
      \* a header that is a number
      HqRecord("t5", <<"cap">>,
               <<Col("References", <<M1, M2>>), TaskCol, MetricCol,
                 Col("2021", <<<<"yes">>, <<"no">>>>)>>, TwoRefs),
      \* three rows, the second without a title and without a full text
      HqRecord("t6", <<"cap">>,
               <<Col("References", <<M1, M2, M3>>),
                 Col("Task", <<<<"x">>, <<"y">>, <<"z">>>>),
                 Col("Metric", <<<<"acc">>, <<"f1">>, <<"acc">>>>)>>,
               << BibRow("abc1234aaaa", 0, 11, "title", "ref"),
                  BibRow("def5678aaaa", 1, 13, None, "ref"),
                  BibRow("0000000aaaa", 2, 12, "title", "ref") >>),
      \* no caption
      HqRecord("t7", NO_CAPTION,
               <<Col("References", <<M1, M2>>), TaskCol, MetricCol>>, TwoRefs),
      \* two columns
      HqRecord("t8", <<"cap">>, <<Col("References", <<M1, M2>>), TaskCol>>, TwoRefs),
      \* a second column of citations
      HqRecord("t9", <<"cap">>,
               <<Col("References", <<M1, M2>>),
                 Col("Also", <<M2 \o <<",">> \o M1, <<"-">>>>), TaskCol, MetricCol>>,
               TwoRefs) }

\* run, lines 1082-1097
filters_hq ==
    <<"no_formula", "has_caption", "no_no_cite", "no_dup", "more_than_two_uniq_rows",
      "has_in_text_ref", "cols_no_names", "cols_no_old_citation_col",
      "no_merged_headers", "cols_no_float", "cols_no_figure",
      "rows_no_missing_titles", "rows_no_missing_abstracts",
      "rows_no_missing_full_texts">>

\* run, lines 1162-1177
filters_high_quality_schemes ==
    <<"no_dup", "more_than_two_uniq_rows", "has_caption", "cols_no_names",
      "cols_no_formula_colname", "no_merged_headers">>

\* run, lines 1191-1204
filters_mid_quality ==
    <<"no_dup", "max_one_no_cite", "more_than_two_uniq_rows", "has_caption",
      "cols_no_names", "cols_no_formula", "cols_no_float", "cols_no_figure",
      "rows_no_missing_titles", "rows_no_missing_abstracts">>

\* The filter lists tried: the default, the three of run(), and two with an
\* aspect-based column filter.
HqFilterLists ==
    { DEFAULT_POST_JSON_FILTERS, filters_hq, filters_high_quality_schemes,
      filters_mid_quality,
      <<"no_dup", "cols_no_numeric">>,
      <<"has_caption", "cols_no_ent_or_gen", "col_no_generic">> }

InitFilter ==
    /\ hqIn \in UNION { [1..n -> HqRecords] : n \in 1..MaxHqTables }
    /\ hqFlags \in HqFilterLists
    /\ hqOut = HqNone
    /\ PoolIdle /\ RefIdle /\ CdIdle /\ AuxIdle

\* One call get_high_quality_tables(hqIn, hqFlags).
RunFilter ==
    /\ ~hqOut.done
    /\ hqIn # <<>>
    /\ LET res == GetHighQualityTables(hqIn, hqFlags)
       IN  /\ hqOut' = [done |-> TRUE, tables |-> res.out]
           /\ hqIn' = res.tables
    /\ UNCHANGED <<hqFlags, poolVars, refVars, cdVars, auxVars>>

NextFilter == RunFilter

SpecFilter == InitFilter /\ [][NextFilter]_vars

\* The record passes every check of the call but the duplicate check.
PassesOtherChecks(t) == HqStep(t, hqFlags, {}).keep

\* The signature the duplicate check computes for a record.
Signature(t) == TableStrNoRefs(NewTableDict(t, hqFlags))

\* The number of emitted records that come from the table with this hash.
OutCount(h) ==
    Cardinality({o \in DOMAIN hqOut.tables : hqOut.tables[o].hash = h})

\* The positions of the records submitted more than once.
SubmittedTwice ==
    {i \in DOMAIN hqIn : \E j \in DOMAIN hqIn : j # i /\ hqIn[j] = hqIn[i]}

\* An earlier, different record of the call has the same signature and
\* passes the other checks.
ShadowedByEarlier(i) ==
    \E k \in 1..(i - 1) :
        /\ hqIn[k] # hqIn[i]
        /\ PassesOtherChecks(hqIn[k])
        /\ Signature(hqIn[k]) = Signature(hqIn[i])

\* C5 as stated: with no_dup enabled, a record submitted twice in one call
\* that passes every other enabled check has exactly one copy in the output.
C5_ExactlyOneCopy ==
    (hqOut.done /\ Has(hqFlags, "no_dup")) =>
        \A i \in SubmittedTwice :
            PassesOtherChecks(hqIn[i]) => OutCount(hqIn[i].hash) = 1

\* C5 as amended: ... has exactly one copy in the output, provided no
\* earlier, different record of the call with the same signature passes the
\* checks (that record is then the one emitted).
C5_ExactlyOneCopyUnlessShadowed ==
    (hqOut.done /\ Has(hqFlags, "no_dup")) =>
        \A i \in SubmittedTwice :
            (PassesOtherChecks(hqIn[i]) /\ ~ShadowedByEarlier(i))
                => OutCount(hqIn[i].hash) = 1

C5_Witness ==
    /\ hqOut.done
    /\ Has(hqFlags, "no_dup")
    /\ \E i \in SubmittedTwice :
          /\ PassesOtherChecks(hqIn[i])
          /\ ~ShadowedByEarlier(i)
          /\ OutCount(hqIn[i].hash) = 1

RECURSIVE IsSubsequence(_, _)
IsSubsequence(a, b) ==
    IF a = <<>> THEN TRUE
    ELSE IF b = <<>> THEN FALSE
    ELSE IF Head(a) = Head(b) THEN IsSubsequence(Tail(a), Tail(b))
    ELSE IsSubsequence(a, Tail(b))

\* Record o is record t with rows and columns taken out, nothing added.
PrunedRecord(t, o) ==
    /\ o.hash = t.hash
    /\ HasCol(o.cols, References)
    /\ \A c \in DOMAIN o.cols :
          /\ HasCol(t.cols, o.cols[c].name)
          /\ IsSubsequence(o.cols[c].vals, ColByName(t.cols, o.cols[c].name).vals)

\* The emitted records are, in order, pruned records of the input list.
RECURSIVE PrunedFrom(_, _)
PrunedFrom(ins, outs) ==
    IF outs = <<>> THEN TRUE
    ELSE IF ins = <<>> THEN FALSE
    ELSE \/ (PrunedRecord(Head(ins), Head(outs)) /\ PrunedFrom(Tail(ins), Tail(outs)))
         \/ PrunedFrom(Tail(ins), outs)

\* C7: the Quality Filter Pipeline only prunes: every emitted record has a
\* subset of its input record's column names, References among them, every
\* column's values are a subsequence of the input column's values, and the
\* call leaves the input records as they were.
C7_OnlyPrunes ==
    [][(~hqOut.done /\ hqOut'.done)
          => (hqIn' = hqIn /\ PrunedFrom(hqIn, hqOut'.tables))]_vars

\* Some emitted record lost a row and some emitted record lost a column.
C7_Witness ==
    /\ hqOut.done
    /\ \E o \in DOMAIN hqOut.tables, i \in DOMAIN hqIn :
          /\ hqOut.tables[o].hash = hqIn[i].hash
          /\ Len(hqOut.tables[o].cols[1].vals) < Len(hqIn[i].cols[1].vals)
    /\ \E o \in DOMAIN hqOut.tables, i \in DOMAIN hqIn :
          /\ hqOut.tables[o].hash = hqIn[i].hash
          /\ Len(hqOut.tables[o].cols) < Len(hqIn[i].cols)

AspectFilterEnabled ==
    Has(hqFlags, "cols_no_ent_or_gen") \/ Has(hqFlags, "cols_no_numeric")

\* C8: every emitted table has at least 3 columns (References counted), or
\* at least 2 when cols_no_ent_or_gen or cols_no_numeric is enabled.
C8_EnoughColumns ==
    hqOut.done =>
        \A o \in DOMAIN hqOut.tables :
            Len(hqOut.tables[o].cols) >= (IF AspectFilterEnabled THEN 2 ELSE 3)

\* A table of exactly 2 columns is emitted, and one that lost a column.
C8_Witness ==
    /\ hqOut.done
    /\ \E o \in DOMAIN hqOut.tables : Len(hqOut.tables[o].cols) = 2
    /\ \E o \in DOMAIN hqOut.tables, i \in DOMAIN hqIn :
          /\ hqOut.tables[o].hash = hqIn[i].hash
          /\ Len(hqOut.tables[o].cols) < Len(hqIn[i].cols)

\* ---- SpecPrune: one call of get_high_quality_tables on records with a
\* ---- missing caption, removable rows and a row of the paper itself

\* Bound: the number of records handed to one call.
MaxPruneTables == 2

\* Records as create_dataset and populate_bib_entries leave them.  Entries
\* of one reference carry the same title; the entry of the paper itself is
\* the last of the mapping (get_table_row_bib_map).
PruneRecords ==
    { \* a blank caption
      HqRecord("p1", <<" ">>, <<Col("References", <<M1, M2>>), TaskCol, MetricCol>>,
               TwoRefs),
      \* the missing-caption value
      HqRecord("p2", NO_CAPTION,
               <<Col("References", <<M1, M2>>), TaskCol,
                 Col("Base", <<<<"see", "{{cite:0000000}}">>, <<"see", "{{cite:abc1234}}">>>>)>>,
               TwoRefs),
      \* the same table with a caption
      HqRecord("p7", <<"cap">>,
               <<Col("References", <<M1, M2>>), TaskCol,
                 Col("Base", <<<<"see", "{{cite:0000000}}">>, <<"see", "{{cite:abc1234}}">>>>)>>,
               TwoRefs),
      \* the same table but for its References values and citation keys
      HqRecord("p8", <<"cap">>,
               <<Col("References", <<M2, M3>>), TaskCol,
                 Col("Base", <<<<"see", "{{cite:abc1234}}">>, <<"see", "{{cite:def5678}}">>>>)>>,
               << BibRow("def5678aaaa", 0, 12, "title", "ref"),
                  BibRow("0000000aaaa", 1, 11, "title", "ref") >>),
      \* two rows, the second without a title
      HqRecord("p3", <<"cap">>,
               <<Col("References", <<M1, M2>>), TaskCol,
                 Col("Data", <<<<"a">>, <<"b">>>>)>>,
               << BibRow("abc1234aaaa", 0, 11, "title", "ref"),
                  BibRow("def5678aaaa", 1, 12, None, "ref") >>),
      \* three rows, two of them of one reference, the third without a title
      HqRecord("p4", <<"cap">>,
               <<Col("References", <<M1, M1, M2>>),
                 Col("Task", <<<<"x">>, <<"y">>, <<"z">>>>),
                 Col("Size", <<<<"s">>, <<"m">>, <<"l">>>>)>>,
               << BibRow("abc1234aaaa", 0, 11, "title", "ref"),
                  BibRow("abc1234aaaa", 1, 11, "title", "ref"),
                  BibRow("def5678aaaa", 2, 12, None, "ref") >>),
      \* three rows, the second without a title
      HqRecord("p5", <<"cap">>,
               <<Col("References", <<M1, M2, M3>>),
                 Col("Task", <<<<"x">>, <<"y">>, <<"z">>>>),
                 Col("Year", <<<<"old">>, <<"new">>, <<"new">>>>)>>,
               << BibRow("abc1234aaaa", 0, 11, "title", "ref"),
                  BibRow("def5678aaaa", 1, 12, None, "ref"),
                  BibRow("0000000aaaa", 2, 12, "title", "ref") >>),
      \* the first row is the row of the paper itself
      HqRecord("p6", <<"cap">>,
               <<Col("References", <<<<"no_cite-", "0">>, M1, M2>>),
                 Col("Method", <<<<"Ours">>, <<"-">>, <<"-">>>>),
                 Col("Task", <<<<"x">>, <<"y">>, <<"z">>>>)>>,
               << BibRow("abc1234aaaa", 1, 11, "title", "ref"),
                  BibRow("def5678aaaa", 2, 12, "title", "ref"),
                  BibRow("2308.00001", 0, 12, "title", "ours") >>) }

\* The filter lists tried: the default, one of run(), and two without
\* has_caption.
PruneFilterLists ==
    { DEFAULT_POST_JSON_FILTERS, filters_mid_quality,
      <<"no_dup", "cols_no_numeric">>,
      <<"rows_no_missing_titles", "more_than_two_uniq_rows">> }

InitPrune ==
    /\ hqIn \in UNION { [1..n -> PruneRecords] : n \in 1..MaxPruneTables }
    /\ hqFlags \in PruneFilterLists
    /\ hqOut = HqNone
    /\ PoolIdle /\ RefIdle /\ CdIdle /\ AuxIdle

SpecPrune == InitPrune /\ [][NextFilter]_vars

\* ---- The caption check (line 828)

\* The caption is the missing-caption value or blank.
MissingCaption(t) == t.caption = NO_CAPTION \/ Strip(t.caption) = <<>>

\* The record with an ordinary caption passes every check of the call but
\* the duplicate check.
PassesWithCaption(t) == PassesOtherChecks([t EXCEPT !.caption = <<"cap">>])

\* The record at place i of the input is in the output.
EmittedAt(i) == \E o \in DOMAIN hqOut.tables : hqOut.tables[o].hash = hqIn[i].hash

\* C23: a table is dropped on account of its caption if and only if
\* has_caption is enabled and the caption is "NO_CAPTION" or blank; with
\* has_caption not enabled the caption has no influence on whether the
\* table is emitted.  (Stated for the records that an ordinary caption
\* would let through and that no earlier record shadows as a duplicate.)
C23_CaptionDropsOnlyWhenEnabled ==
    hqOut.done =>
        \A i \in DOMAIN hqIn :
            (PassesWithCaption(hqIn[i])
               /\ ~(Has(hqFlags, "no_dup") /\ ShadowedByEarlier(i)))
              => (~EmittedAt(i)
                    <=> (Has(hqFlags, "has_caption") /\ MissingCaption(hqIn[i])))

\* ---- Row-level removal (lines 864-898, 979-984)

\* The References values of an emitted table.
ReferencesOf(t) == ColByName(t.cols, References).vals

\* C24: with more_than_two_uniq_rows enabled, every emitted table has at
\* least 2 distinct References values among the rows that remain after the
\* row-level removal.
C24_TwoDistinctReferencesRemain ==
    (hqOut.done /\ Has(hqFlags, "more_than_two_uniq_rows")) =>
        \A o \in DOMAIN hqOut.tables :
            Cardinality(Range(ReferencesOf(hqOut.tables[o]))) >= 2

\* A table that lost a row is emitted with 2 distinct References values,
\* and a table whose remaining rows are of one reference is not emitted.
C24_Witness ==
    /\ hqOut.done
    /\ Has(hqFlags, "more_than_two_uniq_rows")
    /\ \E o \in DOMAIN hqOut.tables, i \in DOMAIN hqIn :
          /\ hqOut.tables[o].hash = hqIn[i].hash
          /\ Len(ReferencesOf(hqOut.tables[o])) < Len(ReferencesOf(hqIn[i]))
          /\ Cardinality(Range(ReferencesOf(hqOut.tables[o]))) = 2
    /\ \E i \in DOMAIN hqIn :
          /\ ~EmittedAt(i)
          /\ Len(KeepRows(ReferencesOf(hqIn[i]), RemoveRows(hqIn[i], hqFlags))) = 2
          /\ Cardinality(Range(KeepRows(ReferencesOf(hqIn[i]),
                                        RemoveRows(hqIn[i], hqFlags)))) = 1

\* The mapping entries of the record that the row flags leave in.
KeptEntries(t) == SelectSeq(t.rbm, LAMBDA row : ~ShouldRemoveRow(row, hqFlags))

\* The row numbers of the entries that the row flags take out.
RemovedRowNumbers(t) ==
    {t.rbm[j].row : j \in {k \in DOMAIN t.rbm : ShouldRemoveRow(t.rbm[k], hqFlags)}}

\* Row r (from 0) of table `before` and row q of table `after` have the same
\* value in every column of `after`.
SameTableRow(before, r, after, q) ==
    \A c \in DOMAIN after.cols :
        /\ q + 1 \in DOMAIN after.cols[c].vals
        /\ r + 1 \in DOMAIN ColByName(before.cols, after.cols[c].name).vals
        /\ after.cols[c].vals[q + 1]
              = ColByName(before.cols, after.cols[c].name).vals[r + 1]

\* The emitted table `after` is the record `before` with its rows pruned as
\* the claim has it.
PrunedConsistently(before, after) ==
    LET kept == KeptEntries(before)
    IN  /\ Len(after.rbm) = Len(kept)
        /\ \A j \in DOMAIN after.rbm : after.rbm[j].row = j - 1
        /\ \A j \in DOMAIN after.rbm :
              /\ after.rbm[j].id = kept[j].id
              /\ SameTableRow(before, kept[j].row, after, after.rbm[j].row)
        /\ \A c \in DOMAIN after.cols :
              after.cols[c].vals
                = KeepRows(ColByName(before.cols, after.cols[c].name).vals,
                           RemovedRowNumbers(before))

\* C25: after the row-level removal the kept mapping entries carry the row
\* indices 0..k-1 without gaps, each kept entry's new row index designates
\* in the pruned column map the table row the entry designated before, and
\* every column of the pruned column map has lost exactly the removed rows.
C25_RenumberedEntriesDesignateSameRows ==
    hqOut.done =>
        \A o \in DOMAIN hqOut.tables, i \in DOMAIN hqIn :
            hqOut.tables[o].hash = hqIn[i].hash
                => PrunedConsistently(hqIn[i], hqOut.tables[o])

\* ---- The duplicate check (lines 990-1003)

\* The text with every citation marker replaced by one fixed token.
OneToken(text) ==
    [k \in DOMAIN text |-> IF text[k] \in Markers THEN "[cite]" ELSE text[k]]

\* The headers and values of the remaining columns other than References,
\* every citation marker replaced by one fixed token.
Canonical(t) ==
    LET rest == SelectSeq(NewTableDict(t, hqFlags), LAMBDA c : c.name # References)
    IN  [c \in DOMAIN rest |->
            [name |-> OneToken(rest[c].name),
             vals |-> [r \in DOMAIN rest[c].vals |-> OneToken(rest[c].vals[r])]]]

\* The first place of the input whose record passes the other checks and
\* has the signature of the record at place i.
FirstPassingLike(i) ==
    CHOOSE k \in DOMAIN hqIn :
        /\ PassesOtherChecks(hqIn[k])
        /\ Signature(hqIn[k]) = Signature(hqIn[i])
        /\ \A m \in 1..(k - 1) :
              ~(PassesOtherChecks(hqIn[m]) /\ Signature(hqIn[m]) = Signature(hqIn[i]))

\* The emitted tables that have the signature of the record at place i.
EmittedLike(i) ==
    {o \in DOMAIN hqOut.tables :
        TableStrNoRefs(hqOut.tables[o].cols) = Signature(hqIn[i])}

\* C26: with no_dup enabled, two tables whose remaining columns other than
\* References have the same headers and values, markers replaced by one
\* token, have the same signature whatever their References values and
\* citation keys; of the tables of one call sharing a signature exactly the
\* first in input order that passes every other enabled check is emitted; a
\* table dropped by another check never makes a later table be dropped.
C26_FirstPassingOfSignatureEmitted ==
    (hqOut.done /\ Has(hqFlags, "no_dup")) =>
        /\ \A i, j \in DOMAIN hqIn :
              Canonical(hqIn[i]) = Canonical(hqIn[j])
                  => Signature(hqIn[i]) = Signature(hqIn[j])
        /\ \A i \in DOMAIN hqIn :
              PassesOtherChecks(hqIn[i]) =>
                  /\ Cardinality(EmittedLike(i)) = 1
                  /\ \A o \in EmittedLike(i) :
                        hqOut.tables[o].hash = hqIn[FirstPassingLike(i)].hash
        /\ \A o \in DOMAIN hqOut.tables :
              \E i \in DOMAIN hqIn :
                  /\ PassesOtherChecks(hqIn[i])
                  /\ hqOut.tables[o].hash = hqIn[i].hash

\* Two tables that differ in their References values and citation keys
\* only, both passing the other checks: the first is emitted, the second
\* is not.
C26_Witness ==
    /\ hqOut.done
    /\ Has(hqFlags, "no_dup")
    /\ Len(hqIn) = 2
    /\ hqIn[1].hash # hqIn[2].hash
    /\ ReferencesOf(hqIn[1]) # ReferencesOf(hqIn[2])
    /\ NewTableDict(hqIn[1], hqFlags) # NewTableDict(hqIn[2], hqFlags)
    /\ Canonical(hqIn[1]) = Canonical(hqIn[2])
    /\ PassesOtherChecks(hqIn[1]) /\ PassesOtherChecks(hqIn[2])
    /\ Len(hqOut.tables) = 1
    /\ hqOut.tables[1].hash = hqIn[1].hash

\* A table dropped by another check comes before a table of the same
\* signature, which is emitted.
C26_WitnessDroppedFirst ==
    /\ hqOut.done
    /\ Has(hqFlags, "no_dup")
    /\ Len(hqIn) = 2
    /\ ~PassesOtherChecks(hqIn[1])
    /\ Signature(hqIn[1]) = Signature(hqIn[2])
    /\ Len(hqOut.tables) = 1
    /\ hqOut.tables[1].hash = hqIn[2].hash

\* ---- The filter list (lines 792-1010)

\* The filter list in reverse order, with its first name moved to the end,
\* and with every name repeated.
ReversedFlags == [k \in DOMAIN hqFlags |-> hqFlags[Len(hqFlags) + 1 - k]]
RotatedFlags  == Tail(hqFlags) \o <<Head(hqFlags)>>
RepeatedFlags == hqFlags \o ReversedFlags

\* C29: the output depends only on the set of enabled flags and the input
\* sequence: any reordering or repetition of the flag names of the filter
\* list yields the identical output (same tables, same order, same pruned
\* rows and columns).
C29_OutputDependsOnFlagSet ==
    hqOut.done =>
        \A filters \in {ReversedFlags, RotatedFlags, RepeatedFlags} :
            GetHighQualityTables(hqIn, filters).out = hqOut.tables

\* A call with several flags that emits a table with a row pruned.
C29_Witness ==
    /\ hqOut.done
    /\ ReversedFlags # hqFlags
    /\ RotatedFlags # hqFlags
    /\ \E o \in DOMAIN hqOut.tables, i \in DOMAIN hqIn :
          /\ hqOut.tables[o].hash = hqIn[i].hash
          /\ hqOut.tables[o].cols # hqIn[i].cols
    /\ \E i \in DOMAIN hqIn : ~EmittedAt(i)

(***************************************************************************)
(*                             soup_to_json                                *)
(*                                                                         *)
(* A parsed table (table_soup) is the sequence of its tr elements, a row   *)
(* the sequence of its td elements, a cell [text, cols, shas]: the cell's  *)
(* text, its cols attribute (1 when it has none) and the sha attributes of *)
(* the cit elements inside it (None for a cit without one).  The grid      *)
(* table["table"] is a sequence of rows of texts, "" being <<>>.           *)
(***************************************************************************)

Cell(text, span, shas) == [text |-> text, cols |-> span, shas |-> shas]

Max(S) == CHOOSE x \in S : \A y \in S : y <= x

\* line 491: sum([int(cell.attrs.get("cols", "1")) for cell in row])
RECURSIVE SumCols(_)
SumCols(row) == IF row = <<>> THEN 0 ELSE Head(row).cols + SumCols(Tail(row))

\* lines 488-494: num_cols (rows is not empty)
NumColsOf(rows) ==
    Max({Len(rows[r]) : r \in DOMAIN rows} \cup {SumCols(rows[r]) : r \in DOMAIN rows})

\* line 550: the tokens that stand for a digit followed by a star
RowSpanToks == {"2*", "3*"}

\* int(multirow_cell[1])
RowSpanCount(tok) == CASE tok = "2*" -> 2 [] tok = "3*" -> 3

\* line 550: re.search(r"(\d)\*(.+)", cell_text): the leftmost digit-star
\* that has text behind it, 0 when there is none
MultirowAt(text) ==
    LET hits == {i \in DOMAIN text : text[i] \in RowSpanToks /\ i < Len(text)}
    IN  IF hits = {} THEN 0 ELSE CHOOSE i \in hits : \A j \in hits : i <= j

\* line 571: the tokens that match \(r\)\d-\d
HLineToks == {"(r)1-2"}

\* lines 235-236: is_na
IsNa(text) ==
    \/ text \in {<<"N/A">>, <<"n/a">>}
    \/ Strip(text) = <<>>
    \/ text = <<"u2216">>

\* The propagation as a mutant would do it: nothing is written below.
PropagateNothing(grid, row_i, c, text, row_offset, count) ==
    [failed |-> FALSE, grid |-> grid]

\* lines 556-568: the text of a multi-row cell is added to the same column
\* of the count-1 rows below; failed when one of them is not in the grid
RECURSIVE Propagate(_, _, _, _, _, _)
Propagate(grid, row_i, c, text, row_offset, count) ==
    IF row_offset >= count THEN [failed |-> FALSE, grid |-> grid]
    ELSE IF row_i + row_offset >= Len(grid) THEN [failed |-> TRUE, grid |-> grid]
    ELSE Propagate([grid EXCEPT ![row_i + row_offset + 1][c] = @ \o Strip(text)],
                   row_i, c, text, row_offset + 1, count)

\* lines 550-553: cell_text once the multi-row prefix is taken off
CellTextAt(text, at) ==
    IF at = 0 THEN text ELSE SubSeq(text, at + 1, Len(text))

\* lines 570-585: the grid position of the cell itself is written if it is
\* empty; a horizontal-line token goes, a cell without a value outside the
\* header rows gets a dash
WriteOwn(below, hdr, row_i, c, text) ==
    IF below.failed \/ below.grid[row_i + 1][c] # <<>> THEN below
    ELSE [failed |-> FALSE,
          grid |-> [below.grid EXCEPT ![row_i + 1][c] =
                      Strip(IF IsNa(Strip(text)) /\ row_i \notin Range(hdr)
                              THEN Dash ELSE text)]]

\* lines 548-585: what one cell does to one grid column c (from 1) of its
\* row row_i (from 0), the multi-row prefix being at position at (0: none)
WriteCellAt(grid, hdr, row_i, c, text, at) ==
    WriteOwn(Propagate(grid, row_i, c, CellTextAt(text, at), 1,
                       IF at = 0 THEN 1 ELSE RowSpanCount(text[at])),
             hdr, row_i, c,
             SelectSeq(CellTextAt(text, at), LAMBDA t : t \notin HLineToks))

WriteCell(grid, hdr, row_i, c, cell) ==
    WriteCellAt(grid, hdr, row_i, c, cell.text, MultirowAt(cell.text))

\* lines 544-586: the cells of a row, each over the columns it spans
RECURSIVE WriteCells(_, _, _, _, _, _)
WriteCells(w, hdr, row_i, cells, col_i, col_offset) ==
    IF cells = <<>> \/ w.failed THEN w
    ELSE IF col_offset >= Head(cells).cols
      THEN WriteCells(w, hdr, row_i, Tail(cells), col_i + Head(cells).cols, 0)
    ELSE WriteCells(WriteCell(w.grid, hdr, row_i, col_i + col_offset + 1, Head(cells)),
                    hdr, row_i, cells, col_i, col_offset + 1)

HasFigure(cells) == \E k \in DOMAIN cells : AnyTok(cells[k].text, FigureToks)

\* line 520: num_cites, the cells of the row with a cit element inside
NumCitesOfRow(cells) == Cardinality({k \in DOMAIN cells : cells[k].shas # <<>>})

\* lines 523-533: header_rows after the row: a row without citations among
\* the first two, and a row with too few cells, are header rows as long as
\* no citation was seen
HeaderRowsAfter(hdr, row_i, cells, num_cols, seen) ==
    hdr \o (IF NumCitesOfRow(cells) = 0 /\ row_i <= 1 /\ ~seen
              THEN <<row_i>> ELSE <<>>)
        \o (IF Len(cells) < num_cols /\ ~seen THEN <<row_i>> ELSE <<>>)

\* lines 534-542: the row goes to incomplete_rows and is not written
IsIncomplete(cells, num_cols, seen) ==
    /\ ~(Len(cells) < num_cols /\ ~seen)
    /\ (Len(cells) < num_cols \/ HasFigure(cells))

IncompleteRow(row_i, cells) ==
    [row_idx |-> row_i, cells |-> [k \in DOMAIN cells |-> cells[k].text]]

AfterWrite(st, seen, hdr, w) ==
    [grid |-> w.grid, failed |-> w.failed, seen_cites |-> seen,
     header_rows |-> hdr, incomplete_rows |-> st.incomplete_rows]

\* lines 516-586: one turn of the loop over the rows, seen and hdr being
\* seen_cites and header_rows as the turn has set them
FillRowWith(st, row_i, cells, num_cols, seen, hdr) ==
    IF IsIncomplete(cells, num_cols, seen)
      THEN [st EXCEPT !.seen_cites = seen, !.header_rows = hdr,
                      !.incomplete_rows = Append(@, IncompleteRow(row_i, cells))]
      ELSE AfterWrite(st, seen, hdr,
                      WriteCells([failed |-> FALSE, grid |-> st.grid],
                                 hdr, row_i, cells, 0, 0))

FillRowSeen(st, row_i, cells, num_cols, seen) ==
    FillRowWith(st, row_i, cells, num_cols, seen,
                HeaderRowsAfter(st.header_rows, row_i, cells, num_cols, seen))

FillRow(st, row_i, cells, num_cols) ==
    FillRowSeen(st, row_i, cells, num_cols,
                st.seen_cites \/ NumCitesOfRow(cells) > 0)

\* lines 515-586: the loop over the rows. st holds table["table"],
\* table["incomplete_rows"], header_rows and seen_cites.
RECURSIVE FillRows(_, _, _, _)
FillRows(rows, row_i, num_cols, st) ==
    IF row_i >= Len(rows) \/ st.failed THEN st
    ELSE FillRows(rows, row_i + 1, num_cols,
                  FillRow(st, row_i, rows[row_i + 1], num_cols))

\* lines 472-483: merge_rows(table, 0, 1)
MergeRows(table) ==
    LET new_row == [c \in DOMAIN table[1] |->
                      IF table[1][c] = table[2][c] \/ Strip(table[2][c]) = <<>>
                        THEN table[1][c]
                      ELSE IF Strip(table[1][c]) = <<>> THEN table[2][c]
                      ELSE table[1][c] \o <<"-">> \o table[2][c]]
    IN  <<new_row>> \o SubSeq(table, 3, Len(table))

\* lines 592-594 with a single call of merge_rows
MergeHeaderOnce(table, times) ==
    IF times = 0 THEN table ELSE MergeRows(table)

\* lines 592-594: merge_rows as many times as the highest header row says
RECURSIVE MergeHeader(_, _)
MergeHeader(table, times) ==
    IF times = 0 THEN table ELSE MergeHeader(MergeRows(table), times - 1)

\* lines 596-601: the rows with a cell that is not empty
RemoveEmptyRows(table) ==
    SelectSeq(table, LAMBDA row : \E c \in DOMAIN row : row[c] # <<>>)

\* line 611: pd.DataFrame(table[1:], columns=table[0])
FrameOf(table) ==
    [c \in DOMAIN table[1] |->
        [name |-> table[1][c],
         vals |-> [r \in 1..(Len(table) - 1) |-> table[r + 1][c]]]]

\* ---- postprocess_table_df

\* lines 231-232: tokens that match COLORS, and COLORS followed by !dd
ColorToks == {"red", "gray"}
ColorAnnotToks == {"red!20"}

\* line 450: tokens that match \[[cl]\]
PositionToks == {"[c]", "[l]"}

\* line 453: tokens that match \d\d+em
FontSizeToks == {"10em"}

MapToks(text, from, to) ==
    [i \in DOMAIN text |-> IF text[i] \in from THEN to ELSE text[i]]

\* line 445: re.sub(COLORS_RE, "", cell): a colour with its !dd goes, and so
\* does a colour that stands right before a check mark or a cross
DropColorAnnotations(text) ==
    LET keep == {i \in DOMAIN text :
                    /\ text[i] \notin ColorAnnotToks
                    /\ ~(/\ text[i] \in ColorToks
                         /\ i < Len(text)
                         /\ text[i + 1] \in {"check", "cross"})}
        F[i \in 0..Len(text)] ==
            IF i = 0 THEN <<>>
            ELSE IF i \in keep THEN Append(F[i - 1], text[i]) ELSE F[i - 1]
    IN  F[Len(text)]

\* cell == from: the whole cell is the token
WholeCell(text, from, to) == IF text = <<from>> THEN <<to>> ELSE text

\* re.sub("^" + pattern, "", cell): a leading token of the set goes
DropLeading(text, toks) ==
    IF text # <<>> /\ Head(text) \in toks THEN Tail(text) ELSE text

DashIfEmpty(text) == IF text = <<>> THEN Dash ELSE text

\* lines 420-460: process_cell. "nbsp" is the non-breaking space, "rsquo"
\* the curly apostrophe, "cross" U+2717, "heavycheck" U+2714, "check" U+2713.
\* The steps, from the innermost: non-breaking spaces, strip, apostrophes,
\* X, tablered, check marks, tablegreen, colour annotations, a leading
\* colour, positioning markers, a leading font size, N/A and none, strip,
\* a dash for the empty cell.
process_cell(cell) ==
    DashIfEmpty(Strip(MapToks(
        DropLeading(
            SelectSeq(
                DropLeading(
                    DropColorAnnotations(
                        WholeCell(
                            MapToks(
                                WholeCell(
                                    WholeCell(
                                        MapToks(Strip(MapToks(cell, {"nbsp"}, " ")),
                                                {"rsquo"}, "'"),
                                        "X", "cross"),
                                    "tablered", "no"),
                                {"heavycheck"}, "check"),
                            "tablegreen", "yes")),
                    ColorToks),
                LAMBDA t : t \notin PositionToks),
            FontSizeToks),
        {"N/A", "none"}, "-")))

\* lines 462-463: table_df.map(process_cell), columns.map(process_cell)
ProcessFrame(tdf) ==
    [c \in DOMAIN tdf |->
        [name |-> process_cell(tdf[c].name),
         vals |-> [r \in DOMAIN tdf[c].vals |-> process_cell(tdf[c].vals[r])]]]

\* line 409: " ".join(table_df.columns).count("{{cite:") > 0
CitesInColumns(tdf) == \E c \in DOMAIN tdf : HasMarker(tdf[c].name)

FrameRaised == [raised |-> TRUE, df |-> <<>>]
FrameOk(tdf) == [raised |-> FALSE, df |-> tdf]

\* lines 409-417 with the frame left as it is
TransposeNever(tdf) == FrameOk(tdf)

\* lines 410-413 without the except branch of lines 414-416
TransposeNoFallback(tdf) ==
    IF \E c \in DOMAIN Tail(tdf) : Tail(tdf)[c].name = tdf[1].name THEN FrameRaised
    ELSE FrameOk(
           <<[name |-> tdf[1].name,
              vals |-> [c \in DOMAIN Tail(tdf) |-> Tail(tdf)[c].name]]>>
           \o [r \in DOMAIN tdf[1].vals |->
                 [name |-> tdf[1].vals[r],
                  vals |-> [c \in DOMAIN Tail(tdf) |-> Tail(tdf)[c].vals[r]]]])

\* lines 410-417: set_index(first column), transpose(), reset_index(names=
\* first column's name).  The values of the first column become the column
\* names, the other columns become the rows, their names the values of the
\* new first column.  reset_index raises ValueError when the name is among
\* the new column names: the frame is then transposed back and its index
\* put back as a column, which gives the frame as it was.  set_index raises
\* when the first column's name is the name of several columns.
Transpose(tdf) ==
    LET first == tdf[1]
        rest == Tail(tdf)
    IN  IF \E c \in DOMAIN rest : rest[c].name = first.name THEN FrameRaised
        ELSE IF first.name \in Range(first.vals) THEN FrameOk(tdf)
        ELSE FrameOk(
               <<[name |-> first.name,
                  vals |-> [c \in DOMAIN rest |-> rest[c].name]]>>
               \o [r \in DOMAIN first.vals |->
                     [name |-> first.vals[r],
                      vals |-> [c \in DOMAIN rest |-> rest[c].vals[r]]]])

\* lines 462-467: the cells and names are normalised, the references split
ProcessAndSplit(t) ==
    IF t.raised THEN RefError ELSE SplitReferencesColumn(ProcessFrame(t.df))

\* lines 409-417: table_df as postprocess_table_df goes on with it
OrientedFrame(tdf) == IF CitesInColumns(tdf) THEN Transpose(tdf) ELSE FrameOk(tdf)

\* lines 401-469: postprocess_table_df
postprocess_table_df(tdf) == ProcessAndSplit(OrientedFrame(tdf))

\* line 614: table_df.to_dict(orient="list"): a dict has one entry per name,
\* at the place of the name's first column, with the values of its last
ToDict(tdf) ==
    LET firsts == {c \in DOMAIN tdf : \A b \in 1..(c - 1) : tdf[b].name # tdf[c].name}
        last(name) == CHOOSE c \in DOMAIN tdf :
                         /\ tdf[c].name = name
                         /\ \A b \in (c + 1)..Len(tdf) : tdf[b].name # name
        F[c \in 0..Len(tdf)] ==
            IF c = 0 THEN <<>>
            ELSE IF c \in firsts
              THEN Append(F[c - 1], [name |-> tdf[c].name,
                                     vals |-> tdf[last(tdf[c].name)].vals])
              ELSE F[c - 1]
    IN  F[Len(tdf)]

\* What soup_to_json hands back: raised tells that it raised instead.
JsonRaised ==
    [raised |-> TRUE, table |-> <<>>, incomplete_rows |-> <<>>,
     table_dict |-> <<>>, old_citation_column |-> None]

JsonOf(table, incomplete_rows, table_dict, old) ==
    [raised |-> FALSE, table |-> table, incomplete_rows |-> incomplete_rows,
     table_dict |-> table_dict, old_citation_column |-> old]

\* lines 612-614: the frame postprocess_table_df hands back, as a dict
JsonOfPost(st, table, post) ==
    IF post.err THEN JsonRaised
    ELSE JsonOf(table, st.incomplete_rows, ToDict(post.df), post.old)

\* lines 608-617: no row is left, or the rows become a frame
JsonOfTable(st, table) ==
    IF table = <<>> THEN JsonOf(table, st.incomplete_rows, <<>>, None)
    ELSE JsonOfPost(st, table, postprocess_table_df(FrameOf(table)))

\* lines 591-594: table["table"] after the header rows are merged
MergedGrid(st) ==
    IF st.header_rows # <<>>
      THEN MergeHeader(st.grid, Max(Range(st.header_rows)))
      ELSE st.grid

\* No frame is built: the return of lines 560-568, or line 609
NoFrame == [raised |-> FALSE, df |-> <<>>]

\* lines 611 and 409-417: the frame of the rows that are left, as
\* postprocess_table_df has it before the cells are normalised
FrameOfFill(st) ==
    IF st.failed \/ RemoveEmptyRows(MergedGrid(st)) = <<>> THEN NoFrame
    ELSE OrientedFrame(FrameOf(RemoveEmptyRows(MergedGrid(st))))

\* lines 564-568, 592-601: the sentinel of a multi-row cell that reaches
\* past the grid, else the header rows are merged and the empty rows go
JsonOfFill(st) ==
    IF st.failed THEN JsonOf(st.grid, st.incomplete_rows, <<>>, None)
    ELSE JsonOfTable(st, RemoveEmptyRows(MergedGrid(st)))

\* line 506: ["" for ci in range(num_cols)]
RECURSIVE EmptyTexts(_)
EmptyTexts(num_cols) ==
    IF num_cols = 0 THEN <<>> ELSE Append(EmptyTexts(num_cols - 1), <<>>)

\* line 506: one list of empty texts for each row
RECURSIVE EmptyGrid(_, _)
EmptyGrid(num_rows, num_cols) ==
    IF num_rows = 0 THEN <<>>
    ELSE Append(EmptyGrid(num_rows - 1, num_cols), EmptyTexts(num_cols))

\* lines 504-514: the grid of empty texts and the state the loop starts in
EmptyFill(rows, num_cols) ==
    [grid |-> EmptyGrid(Len(rows), num_cols),
     incomplete_rows |-> <<>>, header_rows |-> <<>>,
     seen_cites |-> FALSE, failed |-> FALSE]

\* lines 486-617: soup_to_json. max() of no rows raises ValueError; so does
\* everything postprocess_table_df raises.
soup_to_json(rows) ==
    IF rows = <<>> THEN JsonRaised
    ELSE JsonOfFill(FillRows(rows, 0, NumColsOf(rows),
                             EmptyFill(rows, NumColsOf(rows))))

(***************************************************************************)
(*                get_table_row_bib_map and create_dataset                 *)
(***************************************************************************)

\* line 634: cite_id_map[key]: the last of the known keys that is not None
\* and starts with key; None when the dict has no such entry
CiteIdMap(bib_hashes, key) ==
    LET hits == {i \in DOMAIN bib_hashes :
                    bib_hashes[i] # None /\ First7(bib_hashes[i]) = key}
    IN  IF hits = {} THEN None ELSE bib_hashes[Max(hits)]

\* line 642: "standard" in cell_val.lower()
StandardToks == {"standard", "Standard"}

\* The list as a mutant would build it: every row without a marker and
\* without "standard" gets an entry of its own, at its place.
RECURSIVE RowBibLoopKeepsAll(_, _, _, _, _)
RowBibLoopKeepsAll(cells, i, bib_hashes, paper_id, acc) ==
    IF i >= Len(cells) THEN acc
    ELSE RowBibLoopKeepsAll(cells, i + 1, bib_hashes, paper_id,
             IF HasMarker(cells[i + 1]) \/ AnyTok(cells[i + 1], StandardToks)
               THEN [acc EXCEPT !.map = Append(@, [id |-> paper_id, row |-> i,
                                                   corpus_id |-> -1, type |-> "ref"])]
               ELSE [acc EXCEPT !.map = Append(@, [id |-> paper_id, row |-> i,
                                                   corpus_id |-> -1, type |-> "ours"])])

\* lines 637-664: the loop over the cells of the first column. acc holds
\* table_row_bib_map, ours_row and whether cite_id_map[cite_id] raised.
RECURSIVE RowBibLoop(_, _, _, _, _)
RowBibLoop(cells, i, bib_hashes, paper_id, acc) ==
    IF i >= Len(cells) \/ acc.raised THEN acc
    ELSE LET cell_val == cells[i + 1]
         IN  IF ~HasMarker(cell_val)
               THEN IF AnyTok(cell_val, StandardToks)
                      THEN RowBibLoop(cells, i + 1, bib_hashes, paper_id, acc)
                      ELSE RowBibLoop(cells, i + 1, bib_hashes, paper_id,
                               [acc EXCEPT !.ours_row =
                                   <<[id |-> paper_id, row |-> i,
                                      corpus_id |-> -1, type |-> "ours"]>>])
             ELSE LET bib_hash_match == CiteIdMap(bib_hashes, KeyOf(FirstMarker(cell_val)))
                  IN  IF bib_hash_match = None
                        THEN [acc EXCEPT !.raised = TRUE]
                        ELSE RowBibLoop(cells, i + 1, bib_hashes, paper_id,
                                 [acc EXCEPT !.map =
                                     Append(@, [id |-> bib_hash_match, row |-> i,
                                                corpus_id |-> -1, type |-> "ref"])])

\* lines 620-668: get_table_row_bib_map. ours_row is a list of no or one
\* entry; raised tells that the call raised KeyError.
get_table_row_bib_map(table_dict, bib_hashes, paper_id) ==
    LET acc == RowBibLoop(table_dict[1].vals, 0, bib_hashes, paper_id,
                          [map |-> <<>>, ours_row |-> <<>>, raised |-> FALSE])
    IN  [raised |-> acc.raised, map |-> acc.map \o acc.ours_row]

\* lines 217-227
DEFAULT_TABLE_FILTERS ==
    <<"has_cites_in_rows_or_cols", "has_at_least_2_cites", "not_too_long_or_short",
      "has_at_least_2_cols", "has_max_2_sub_tables", "has_at_least_2_rows",
      "has_table_cells">>

\* table.get("labels") is None: a map of no label
NoLabels == <<>>

\* lines 680-688: should_skip_table
ShouldSkipTable(t, filters) ==
    /\ t.labels # NoLabels
    /\ \E f \in Range(filters) : ~t.labels[f]

\* The sha of every cit element of a row, in its order
RECURSIVE RowShas(_)
RowShas(cells) ==
    IF cells = <<>> THEN <<>> ELSE Head(cells).shas \o RowShas(Tail(cells))

\* lines 695-696: cite_shas, the sha of every cit element of the table
RECURSIVE CiteShas(_)
CiteShas(rows) ==
    IF rows = <<>> THEN <<>> ELSE RowShas(Head(rows)) \o CiteShas(Tail(rows))

\* lines 701-702: except Exception: table_json = {"table_dict": {}}
CatchRaised(j) == IF j.raised THEN [j EXCEPT !.table_dict = <<>>] ELSE j

\* lines 698-703: soup_to_json inside try/except
TableJson(t) == CatchRaised(soup_to_json(t.rows))

\* lines 736-745: the entries whose key input_papers has get its corpus_id,
\* title and abstract (a table without input_papers has the map of no key)
WithPaperInfo(t, rbm) ==
         [i \in DOMAIN rbm |->
            IF rbm[i].id \notin DOMAIN t.input_papers THEN rbm[i]
            ELSE [id |-> rbm[i].id, row |-> rbm[i].row, type |-> rbm[i].type,
                  corpus_id |-> t.input_papers[rbm[i].id].corpus_id,
                  title |-> t.input_papers[rbm[i].id].title,
                  abstract |-> t.input_papers[rbm[i].id].abstract]]

\* lines 712-746: new_sample
NewSample(t, table_json, row_bib_map) ==
    [paper_id |-> t.paper_id, hash |-> t.hash, caption |-> t.caption,
     in_text_ref |-> t.in_text_ref, table |-> table_json.table,
     incomplete_rows |-> table_json.incomplete_rows,
     cols |-> table_json.table_dict, old |-> table_json.old_citation_column,
     rbm |-> WithPaperInfo(t, row_bib_map), bib_hash |-> CiteShas(t.rows),
     labels |-> t.labels]

\* ---- SpecAssemble: create_dataset, then get_high_quality_tables

\* Bound: the number of tables handed to create_dataset.
MaxTables == 3

Txt(w) == Cell(<<w>>, 1, <<>>)
Cit(m, sha) == Cell(<<m>>, 1, <<sha>>)

AllLabels == [f \in Range(DEFAULT_TABLE_FILTERS) |-> TRUE]

RawTable(h, labels, rows) ==
    [hash |-> h, paper_id |-> "2308.00001", labels |-> labels,
     caption |-> <<"cap">>, in_text_ref |-> <<"section">>, rows |-> rows,
     input_papers |-> <<>>]

HeaderRow == <<Txt("Method"), Txt("Task"), Txt("Metric")>>
CiteRow1 == <<Cit("{{cite:abc1234}}", "abc1234aaaa"), Txt("x"), Txt("acc")>>
CiteRow2 == <<Cit("{{cite:def5678}}", "def5678aaaa"), Txt("y"), Txt("f1")>>

\* Labeled tables as run() hands them to create_dataset (lines 1040-1052).
RawTables ==
    { \* two rows, each with a citation that resolves
      RawTable("r1", AllLabels, <<HeaderRow, CiteRow1, CiteRow2>>),
      \* the same with a row of the paper itself at the end
      RawTable("r2", AllLabels,
               <<HeaderRow, CiteRow1, CiteRow2, <<Txt("Ours"), Txt("z"), Txt("acc")>>>>),
      \* the row of the paper itself has an empty first cell
      RawTable("r3", NoLabels,
               <<HeaderRow, CiteRow1, CiteRow2, <<Txt(" "), Txt("z"), Txt("acc")>>>>),
      \* the row of the paper itself comes first
      RawTable("r4", AllLabels,
               <<HeaderRow, <<Txt("Ours"), Txt("z"), Txt("acc")>>, CiteRow1, CiteRow2>>),
      \* a citation without a sha: its short key has no match
      RawTable("r5", AllLabels,
               <<HeaderRow, CiteRow1,
                 <<Cit("{{cite:0000000}}", None), Txt("y"), Txt("f1")>>>>),
      \* a multi-row cell in the last row
      RawTable("r6", AllLabels,
               <<HeaderRow, CiteRow1,
                 <<Cit("{{cite:def5678}}", "def5678aaaa"),
                   Cell(<<"2*", "y">>, 1, <<>>), Txt("f1")>>>>),
      \* nothing but blank cells
      RawTable("r7", AllLabels, <<<<Txt(" "), Txt(" ")>>>>),
      \* a label of the filter list is false
      RawTable("r8", [AllLabels EXCEPT !["has_at_least_2_cites"] = FALSE],
               <<HeaderRow, CiteRow1, CiteRow2>>),
      \* a column named References next to the column of the citations
      RawTable("r9", AllLabels,
               << <<Txt("References"), Txt("Method"), Txt("Task")>>,
                  <<Txt("[1]"), Cell(<<"{{cite:abc1234}}", "A">>, 1, <<"abc1234aaaa">>), Txt("x")>>,
                  <<Txt("[2]"), Cell(<<"{{cite:def5678}}", "B">>, 1, <<"def5678aaaa">>), Txt("y")>> >>),
      \* the citations are in the first row
      RawTable("r10", AllLabels,
               << <<Txt("Task"), Cit("{{cite:abc1234}}", "abc1234aaaa"),
                    Cit("{{cite:def5678}}", "def5678aaaa")>>,
                  <<Txt("x"), Txt("yes"), Txt("no")>>,
                  <<Txt("y"), Txt("no"), Txt("yes")>> >>) }

IsInjective(f) == \A i, j \in DOMAIN f : f[i] = f[j] => i = j

InitAssemble ==
    /\ labeled \in {f \in UNION { [1..n -> RawTables] : n \in 1..MaxTables } :
                       IsInjective(f)}
    /\ ti = 0
    /\ dataset = <<>>
    /\ skipped = <<>>
    /\ cdpc = "run"
    /\ PoolIdle /\ RefIdle /\ HqIdle /\ AuxIdle

AssembleFrame == UNCHANGED <<poolVars, refVars, auxVars>>

AtTable == cdpc = "run" /\ ti < Len(labeled)

\* lines 679-689: a label of the filter list is false, the table is left out
SkipByLabel ==
    /\ AtTable
    /\ \E t \in {labeled[ti + 1]} :
          ShouldSkipTable(t, DEFAULT_TABLE_FILTERS)
    /\ ti' = ti + 1
    /\ UNCHANGED <<labeled, dataset, skipped, cdpc, hqVars>>
    /\ AssembleFrame

\* lines 698-708: soup_to_json raised or gave an empty table_dict
SkipByReconstruction ==
    /\ AtTable
    /\ \E t \in {labeled[ti + 1]} :
          /\ ~ShouldSkipTable(t, DEFAULT_TABLE_FILTERS)
          /\ TableJson(t).table_dict = <<>>
          /\ skipped' = Append(skipped, t.hash)
    /\ ti' = ti + 1
    /\ UNCHANGED <<labeled, dataset, cdpc, hqVars>>
    /\ AssembleFrame

\* line 710: get_table_row_bib_map raises KeyError; nothing catches it, so
\* create_dataset ends here and returns nothing
MappingRaises ==
    /\ AtTable
    /\ \E t \in {labeled[ti + 1]} :
          /\ ~ShouldSkipTable(t, DEFAULT_TABLE_FILTERS)
          /\ \E table_json \in {TableJson(t)} :
                /\ table_json.table_dict # <<>>
                /\ get_table_row_bib_map(table_json.table_dict, CiteShas(t.rows),
                                         t.paper_id).raised
    /\ cdpc' = "raised"
    /\ UNCHANGED <<labeled, ti, dataset, skipped, hqVars>>
    /\ AssembleFrame

\* lines 710-746: the table is mapped and appended to dataset
Emit ==
    /\ AtTable
    /\ \E t \in {labeled[ti + 1]} :
          /\ ~ShouldSkipTable(t, DEFAULT_TABLE_FILTERS)
          /\ \E table_json \in {TableJson(t)} :
                /\ table_json.table_dict # <<>>
                /\ \E row_bib_map \in {get_table_row_bib_map(table_json.table_dict,
                                           CiteShas(t.rows), t.paper_id)} :
                      /\ ~row_bib_map.raised
                      /\ dataset' = Append(dataset,
                                       NewSample(t, table_json, row_bib_map.map))
    /\ ti' = ti + 1
    /\ UNCHANGED <<labeled, skipped, cdpc, hqVars>>
    /\ AssembleFrame

\* lines 748-753: the loop is over, dataset is returned
ReturnDataset ==
    /\ cdpc = "run"
    /\ ti = Len(labeled)
    /\ cdpc' = "returned"
    /\ UNCHANGED <<labeled, ti, dataset, skipped, hqVars>>
    /\ AssembleFrame

\* get_high_quality_tables(dataset) with filters=None, that is with
\* DEFAULT_POST_JSON_FILTERS (lines 801-802)
FilterDataset ==
    /\ cdpc = "returned"
    /\ ~hqOut.done
    /\ \E res \in {GetHighQualityTables(dataset, DEFAULT_POST_JSON_FILTERS)} :
          /\ hqOut' = [done |-> TRUE, tables |-> res.out]
          /\ hqIn' = res.tables
    /\ hqFlags' = DEFAULT_POST_JSON_FILTERS
    /\ UNCHANGED cdVars
    /\ AssembleFrame

NextAssemble ==
    \/ SkipByLabel
    \/ SkipByReconstruction
    \/ MappingRaises
    \/ Emit
    \/ ReturnDataset
    \/ FilterDataset

SpecAssemble == InitAssemble /\ [][NextAssemble]_vars

PassesLabels(t) == ~ShouldSkipTable(t, DEFAULT_TABLE_FILTERS)

\* soup_to_json neither raises nor hands back an empty table_dict
Reconstructs(t) == TableJson(t).table_dict # <<>>

\* every citation of the reconstructed table has a match among the keys
Maps(t) ==
    /\ Reconstructs(t)
    /\ ~get_table_row_bib_map(TableJson(t).table_dict, CiteShas(t.rows),
                              t.paper_id).raised

EmittedHash(h) == \E d \in DOMAIN dataset : dataset[d].hash = h

CreateDatasetOver == cdpc \in {"returned", "raised"}

\* C1: when reconstruction of a table raises or yields an empty column map,
\* the table is left out of the output, its hash is in the skipped list, and
\* every later table of the input that reconstructs (and whose citations all
\* have a match) is emitted.  The tables 1..ti are those create_dataset has
\* reached.
C1_ReconstructionFailureSkipsOneTable ==
    CreateDatasetOver =>
        \A i \in 1..ti :
            (PassesLabels(labeled[i]) /\ ~Reconstructs(labeled[i])) =>
                /\ ~EmittedHash(labeled[i].hash)
                /\ labeled[i].hash \in Range(skipped)
                /\ \A j \in (i + 1)..Len(labeled) :
                      (PassesLabels(labeled[j]) /\ Maps(labeled[j]))
                          => EmittedHash(labeled[j].hash)

\* C2: when a row's short key has no match among the table's known keys, the
\* failure is confined to that table: it is not emitted, create_dataset
\* returns, and every other table of the batch that maps is emitted.
C2_MappingFailureSkipsOneTable ==
    CreateDatasetOver =>
        \A i \in DOMAIN labeled :
            (PassesLabels(labeled[i]) /\ Reconstructs(labeled[i]) /\ ~Maps(labeled[i])) =>
                /\ ~EmittedHash(labeled[i].hash)
                /\ cdpc = "returned"
                /\ \A j \in DOMAIN labeled :
                      (PassesLabels(labeled[j]) /\ Maps(labeled[j]))
                          => EmittedHash(labeled[j].hash)

RefsOf(d) == ColByName(d.cols, References).vals

\* The rows (from 1) of a record whose References value holds no marker.
MarkerlessRows(d) == {r \in DOMAIN RefsOf(d) : ~HasMarker(RefsOf(d)[r])}

\* A record of three rows, two with a citation marker (resolved, since the
\* record was emitted) and one without a marker and without "standard", and
\* with a caption.
ThreeRowsOneSelf(d) ==
    /\ Len(RefsOf(d)) = 3
    /\ Cardinality(MarkerlessRows(d)) = 1
    /\ \A r \in MarkerlessRows(d) : ~AnyTok(RefsOf(d)[r], StandardToks)
    /\ d.caption # NO_CAPTION
    /\ Strip(d.caption) # <<>>

SelfRow(d) == CHOOSE r \in MarkerlessRows(d) : TRUE

\* The Reference Extractor left the text of the citation column in a column
\* of its own (and so made a new References column).
KeptResidualColumn(d) == d.old # References /\ HasCol(d.cols, d.old)

EmittedByFilter(d) == \E o \in DOMAIN hqOut.tables : hqOut.tables[o].hash = d.hash

\* C6 as stated: such a table, passed through the Assembler and the Quality
\* Filter Pipeline with flags [no_formula, has_caption, no_no_cite, no_dup],
\* is emitted with exactly 3 rows, and the self row's value in "References"
\* is the document id.
C6_SelfRowHoldsDocumentId ==
    hqOut.done =>
        \A i \in DOMAIN dataset :
            ThreeRowsOneSelf(dataset[i]) =>
                \E o \in DOMAIN hqOut.tables :
                    /\ hqOut.tables[o].hash = dataset[i].hash
                    /\ Len(RefsOf(hqOut.tables[o])) = 3
                    /\ RefsOf(hqOut.tables[o])[SelfRow(dataset[i])]
                          = <<dataset[i].paper_id>>

\* C6 as amended: for such a table the document id is in the last entry of
\* row_bib_map (type "ours", the self row's index); the self row's value in
\* "References" is "no_cite-0" when the citation column's text was left in
\* a column of its own, and else a cell text of the table; the pipeline with
\* these flags drops the table in the first case, and when it emits the
\* table it emits it with the same 3 rows.
C6_SelfRowHoldsNoCite ==
    hqOut.done =>
        \A i \in DOMAIN dataset :
            ThreeRowsOneSelf(dataset[i]) =>
                LET d == dataset[i]
                    self == SelfRow(d)
                IN  /\ Len(d.rbm) = 3
                    /\ d.rbm[3].type = "ours"
                    /\ d.rbm[3].id = d.paper_id
                    /\ d.rbm[3].row = self - 1
                    /\ \A k \in 1..2 : d.rbm[k].type = "ref"
                    /\ KeptResidualColumn(d) =>
                          /\ RefsOf(d)[self] = <<"no_cite-", "0">>
                          /\ ~EmittedByFilter(d)
                    /\ ~KeptResidualColumn(d) =>
                          \E r \in DOMAIN d.table : \E c \in DOMAIN d.table[r] :
                              RefsOf(d)[self] = process_cell(d.table[r][c])
                    /\ \A o \in DOMAIN hqOut.tables :
                          hqOut.tables[o].hash = d.hash
                              => RefsOf(hqOut.tables[o]) = RefsOf(d)

\* Both cases happen: a record whose self row holds "no_cite-0" is dropped,
\* and one whose self row holds a dash is emitted with its 3 rows.
C6_Witness ==
    /\ hqOut.done
    /\ \E i \in DOMAIN dataset :
          /\ ThreeRowsOneSelf(dataset[i])
          /\ KeptResidualColumn(dataset[i])
          /\ ~EmittedByFilter(dataset[i])
    /\ \E i \in DOMAIN dataset :
          /\ ThreeRowsOneSelf(dataset[i])
          /\ ~KeptResidualColumn(dataset[i])
          /\ EmittedByFilter(dataset[i])

(***************************************************************************)
(*                 SpecSoup: soup_to_json on one parsed table              *)
(***************************************************************************)

\* Bound: the number of tr elements of the tables tried.
MaxSoupRows == 3

\* A cell that spans two columns.
Wide(w) == Cell(<<w>>, 2, <<>>)

\* The tr elements the tables are made of.
SoupRowPool ==
    { HeaderRow,
      \* two columns of the same name
      <<Txt("Method"), Txt("Task"), Txt("Task")>>,
      CiteRow1,
      CiteRow2,
      \* a cell that spans the two rows below
      <<Cell(<<"3*", "foo">>, 1, <<>>), Txt("x"), Txt("acc")>>,
      \* a cell that spans two columns (the row has 2 td elements)
      <<Txt("Ours"), Wide("wide")>>,
      \* a figure placeholder
      <<Txt("fz"), Txt("{{figure:1}}"), Txt("fw")>>,
      \* one td element only
      <<Txt("note")>>,
      \* a figure placeholder in a row of two td elements
      <<Txt("{{figure:1}}"), Txt("plot")>>,
      \* the same citation in the first two cells
      <<Cit("{{cite:abc1234}}", "abc1234aaaa"), Cit("{{cite:abc1234}}", "abc1234aaaa"),
        Txt("x")>>,
      \* blank cells
      <<Txt(" "), Txt(" "), Txt(" ")>> }

SoupTables == UNION { [1..n -> SoupRowPool] : n \in 1..MaxSoupRows }

InitSoup ==
    /\ soup \in SoupTables
    /\ json = NotRun
    /\ MapIdle /\ ExtractIdle /\ AspectIdle
    /\ PoolIdle /\ RefIdle /\ HqIdle /\ CdIdle

\* lines 486-617: one call of soup_to_json.  filled is the state the loop
\* over the rows ends in (table["table"], incomplete_rows, header_rows,
\* and whether the IndexError return of lines 560-568 was taken), merged
\* table["table"] after line 594 (the return of lines 560-568 comes before
\* it), frame table_df after line 417, res what the call returns.
RunSoup ==
    /\ soup # <<>>
    /\ ~json.done
    /\ \E filled \in {FillRows(soup, 0, NumColsOf(soup),
                                EmptyFill(soup, NumColsOf(soup)))} :
          \E res \in {JsonOfFill(filled)} :
              json' = [done |-> TRUE, filled |-> filled,
                       merged |-> IF filled.failed THEN filled.grid
                                  ELSE MergedGrid(filled),
                       frame |-> FrameOfFill(filled),
                       res |-> res]
    /\ UNCHANGED <<soup, mapVars, extractVars, aspectVars, poolVars, refVars, hqVars, cdVars>>

NextSoup == RunSoup

SpecSoup == InitSoup /\ [][NextSoup]_vars

\* ---- Properties of soup_to_json.  Rows and columns are counted from 1
\* here; the code's row_i is the row minus 1.

FilledGrid == json.filled.grid

\* The grid column a row's k-th td element starts at.
GridColOf(row, k) == 1 + SumCols(SubSeq(row, 1, k - 1))

GridColsOf(row, k) == GridColOf(row, k)..(GridColOf(row, k) + row[k].cols - 1)

\* The text starts with the row-span marker and goes on behind it.
StartsWithSpan(cell) == Len(cell.text) >= 2 /\ cell.text[1] \in RowSpanToks

SpanOf(cell) == RowSpanCount(cell.text[1])

RestOf(cell) == Strip(Tail(cell.text))

IncompleteIdx ==
    {json.filled.incomplete_rows[i].row_idx : i \in DOMAIN json.filled.incomplete_rows}

\* The row was not recorded as incomplete.
FilledRow(r) == (r - 1) \notin IncompleteIdx

\* The k-th cell of row r spans rows past the last one.
OverflowsAt(r, k) ==
    /\ MultirowAt(soup[r][k].text) # 0
    /\ r + RowSpanCount(soup[r][k].text[MultirowAt(soup[r][k].text)]) - 1 > Len(soup)

\* The loop gets to the k-th cell of row r: no cell before it overflowed.
ReachedCell(r, k) ==
    /\ \A q \in 1..(r - 1) :
          FilledRow(q) => \A j \in DOMAIN soup[q] : ~OverflowsAt(q, j)
    /\ \A j \in 1..(k - 1) : ~OverflowsAt(r, j)

\* No row from 1 to r, r left out, has a multi-row cell.
OnlySpanRowUpTo(r, t) ==
    \A q \in (1..t) \ {r} : \A j \in DOMAIN soup[q] : MultirowAt(soup[q][j].text) = 0

Contains(text, sub) ==
    \E i \in 0..(Len(text) - Len(sub)) : SubSeq(text, i + 1, i + Len(sub)) = sub

\* C11: a cell of a filled row r whose text starts with the row-span marker
\* n* has the marker taken off and the rest of its text written into its
\* column(s) of the rows r+1 .. r+n-1 (the rest is all these positions hold
\* when no other cell spans rows); when r+n-1 is past the last row, the
\* loop stops there and soup_to_json returns the grid as it is with an
\* empty column map, without raising.
C11_RowSpanPropagates ==
    json.done =>
        \A r \in DOMAIN soup : \A k \in DOMAIN soup[r] :
            (StartsWithSpan(soup[r][k]) /\ FilledRow(r) /\ ReachedCell(r, k)) =>
                IF r + SpanOf(soup[r][k]) - 1 <= Len(soup)
                  THEN \A c \in GridColsOf(soup[r], k) :
                          /\ \A i \in DOMAIN FilledGrid[r][c] :
                                FilledGrid[r][c][i] \notin RowSpanToks
                          /\ OnlySpanRowUpTo(r, r)
                                => FilledGrid[r][c] = RestOf(soup[r][k])
                          /\ \A t \in (r + 1)..(r + SpanOf(soup[r][k]) - 1) :
                                /\ Contains(FilledGrid[t][c], RestOf(soup[r][k]))
                                /\ OnlySpanRowUpTo(r, t)
                                      => FilledGrid[t][c] = RestOf(soup[r][k])
                  ELSE /\ json.filled.failed
                       /\ ~json.res.raised
                       /\ json.res.table_dict = <<>>
                       /\ json.res.table = FilledGrid
                       /\ \A t \in (r + 1)..Len(soup) : FilledRow(t)

\* "3*foo" in row 0, column 0 of a table of three rows: "foo" is in rows 1
\* and 2 of column 0, and the table is reconstructed.
C11_Witness ==
    /\ json.done
    /\ Len(soup) = 3
    /\ soup[1][1].text = <<"3*", "foo">>
    /\ FilledRow(1)
    /\ FilledGrid[1][1] = <<"foo">>
    /\ FilledGrid[2][1] = <<"foo">>
    /\ FilledGrid[3][1] = <<"foo">>
    /\ json.res.table_dict # <<>>

\* The sentinel is returned for a multi-row cell in the last row but one.
C11_WitnessSentinel ==
    /\ json.done
    /\ Len(soup) = 3
    /\ soup[2][1].text = <<"3*", "foo">>
    /\ json.filled.failed
    /\ json.res.table_dict = <<>>

NoSpanCell == \A q \in DOMAIN soup : \A j \in DOMAIN soup[q] :
                  MultirowAt(soup[q][j].text) = 0

\* No other td element of the table has the text of the k-th one of row r.
OnlyCellWithText(r, k) ==
    \A q \in DOMAIN soup : \A j \in DOMAIN soup[q] :
        soup[q][j].text = soup[r][k].text => (q = r /\ j = k)

\* C12: in a table without multi-row cells, the text of a cell that spans
\* two columns is in both grid columns it spans in its own row, and in no
\* other grid position, whichever row the cell is in.
C12_ColSpanFillsItsColumns ==
    (json.done /\ NoSpanCell) =>
        \A r \in DOMAIN soup : \A k \in DOMAIN soup[r] :
            (soup[r][k].cols = 2 /\ OnlyCellWithText(r, k)) =>
                \A t \in DOMAIN FilledGrid : \A c \in DOMAIN FilledGrid[t] :
                    IF t = r /\ c \in GridColsOf(soup[r], k)
                      THEN FilledGrid[t][c] = Strip(soup[r][k].text)
                      ELSE ~Contains(FilledGrid[t][c], Strip(soup[r][k].text))

\* soup_to_json returned a column map that is not empty.
Reconstructed == json.done /\ ~json.res.raised /\ json.res.table_dict # <<>>

\* The header name and the values of column c of the returned grid, as
\* process_cell normalises them.
GridName(c) == process_cell(json.res.table[1][c])
GridVals(c) ==
    [r \in 1..(Len(json.res.table) - 1) |-> process_cell(json.res.table[r + 1][c])]

GridHasMarker(c) ==
    \E r \in DOMAIN json.res.table : HasMarker(json.res.table[r][c])

\* C13: when two columns of the grid without citation markers have the same
\* header name, the column map has two separate entries of that name, one
\* with the values of each.
C13_DuplicateNamesSurvive ==
    Reconstructed =>
        \A c1, c2 \in DOMAIN json.res.table[1] :
            (/\ c1 < c2
             /\ GridName(c1) = GridName(c2)
             /\ ~GridHasMarker(c1) /\ ~GridHasMarker(c2)
             /\ \A c \in DOMAIN json.res.table[1] : ~HasMarker(GridName(c))) =>
                \E e1, e2 \in DOMAIN json.res.table_dict :
                    /\ e1 # e2
                    /\ json.res.table_dict[e1].name = GridName(c1)
                    /\ json.res.table_dict[e2].name = GridName(c2)
                    /\ json.res.table_dict[e1].vals = GridVals(c1)
                    /\ json.res.table_dict[e2].vals = GridVals(c2)

\* ---- Incomplete rows (lines 513-542)

ShortRow(r) == Len(soup[r]) < NumColsOf(soup)

\* seen_cites when row r is classified: a row up to r holds a citation
SeenCitesAt(r) == \E q \in 1..r : NumCitesOfRow(soup[q]) > 0

\* A header row: no citation in it, among the first two rows and no
\* citation seen, or too few cells and no citation seen
ClassedHeader(r) ==
    \/ NumCitesOfRow(soup[r]) = 0 /\ r - 1 <= 1 /\ ~SeenCitesAt(r)
    \/ ShortRow(r) /\ ~SeenCitesAt(r)

\* An incomplete row: too few cells and no header, or a figure placeholder
ClassedIncomplete(r) ==
    \/ ShortRow(r) /\ ~ClassedHeader(r)
    \/ HasFigure(soup[r])

\* The records of incomplete_rows with the index of row r
RecordsOf(r) ==
    {i \in DOMAIN json.res.incomplete_rows :
        json.res.incomplete_rows[i].row_idx = r - 1}

\* The texts of the cells of row r, stripped, the empty ones left out
OwnTexts(r) == {Strip(soup[r][k].text) : k \in DOMAIN soup[r]} \ {<<>>}

\* A row other than r that was written to the grid holds the text
WrittenElsewhere(r, text) ==
    \E q \in DOMAIN soup :
        /\ q # r
        /\ FilledRow(q)
        /\ \E k \in DOMAIN soup[q] : Contains(soup[q][k].text, text)

\* The texts of the column map: its names and its values
DictTexts ==
    {json.res.table_dict[e].name : e \in DOMAIN json.res.table_dict}
        \cup UNION {Range(json.res.table_dict[e].vals) :
                        e \in DOMAIN json.res.table_dict}

GridTexts(grid) == UNION {Range(grid[r]) : r \in DOMAIN grid}

\* C17: every row classified incomplete (too few cells and not a header,
\* or a cell with a figure placeholder) that the loop gets to is recorded
\* exactly once in incomplete_rows, with its index and the raw texts of its
\* cells, and is left out of the grid: none of its texts is written to its
\* grid row, and the returned grid and column map hold a text of it only
\* where another row brought it.
C17_IncompleteRowsRecordedAndExcluded ==
    (json.done /\ ~json.res.raised) =>
        \A r \in DOMAIN soup :
            (ClassedIncomplete(r) /\ ReachedCell(r, 1)) =>
                /\ Cardinality(RecordsOf(r)) = 1
                /\ \A i \in RecordsOf(r) :
                      json.res.incomplete_rows[i].cells
                          = [k \in DOMAIN soup[r] |-> soup[r][k].text]
                /\ \A t \in OwnTexts(r) :
                      /\ \A c \in DOMAIN FilledGrid[r] : ~Contains(FilledGrid[r][c], t)
                      /\ \A g \in GridTexts(json.res.table) \cup DictTexts :
                            Contains(g, t) => WrittenElsewhere(r, t)

\* ---- The header rows (lines 472-483, 588-594)

\* max(header_rows)
HighestHeader == Max(Range(json.filled.header_rows))

\* The rule of merge_rows for two values of a column
MergeRule(val_i, val_j) ==
    IF val_i = val_j \/ Strip(val_j) = <<>> THEN val_i
    ELSE IF Strip(val_i) = <<>> THEN val_j
    ELSE val_i \o <<"-">> \o val_j

\* The fold of the rule over grid rows 0..k of column c, from the left
RECURSIVE HeaderFold(_, _)
HeaderFold(c, k) ==
    IF k = 0 THEN FilledGrid[1][c]
    ELSE MergeRule(HeaderFold(c, k - 1), FilledGrid[k + 1][c])

MergeRan == json.done /\ ~json.filled.failed /\ json.filled.header_rows # <<>>

\* C18: with h the highest header-row index, the first row of the grid
\* after merging is, in every column, the left-to-right fold of the rule
\* over grid rows 0..h; h merges were made: the grid has h rows fewer and
\* the rows behind row h are as they were.
C18_HeaderIsFoldOfHeaderRows ==
    MergeRan =>
        /\ Len(json.merged) = Len(FilledGrid) - HighestHeader
        /\ \A c \in DOMAIN FilledGrid[1] :
              json.merged[1][c] = HeaderFold(c, HighestHeader)
        /\ \A r \in 2..Len(json.merged) :
              json.merged[r] = FilledGrid[r + HighestHeader]

\* Two merges, one value joined to another with a hyphen, and one value
\* kept because the row below repeats it.
C18_Witness ==
    /\ MergeRan
    /\ HighestHeader = 2
    /\ \E c \in DOMAIN FilledGrid[1] :
          /\ Strip(FilledGrid[1][c]) # <<>> /\ Strip(FilledGrid[2][c]) # <<>>
          /\ FilledGrid[1][c] # FilledGrid[2][c]
          /\ Contains(json.merged[1][c], FilledGrid[1][c] \o <<"-">> \o FilledGrid[2][c])
    /\ \E c \in DOMAIN FilledGrid[1] :
          /\ FilledGrid[1][c] # <<>>
          /\ FilledGrid[1][c] = FilledGrid[2][c]

\* ---- The size of the column map (lines 596-617, 408-418)

\* The frame of the returned grid has a citation marker in a column name
\* and its first column's name is not one of that column's values: the
\* frame was transposed (lines 409-413)
GridTransposed ==
    /\ \E c \in DOMAIN json.res.table[1] : HasMarker(json.res.table[1][c])
    /\ \A r \in 2..Len(json.res.table) : json.res.table[r][1] # json.res.table[1][1]

\* C19 as stated: every column of a column map that is not empty holds as
\* many values as the returned grid has rows, less the one header row.
C19_ColumnMapRowCount ==
    Reconstructed =>
        \A e \in DOMAIN json.res.table_dict :
            Len(json.res.table_dict[e].vals) = Len(json.res.table) - 1

\* C19, amended: every column of a column map that is not empty holds the
\* same number of values: the number of rows of the returned grid less
\* the header row, or, when the frame was transposed, the number of
\* columns of the returned grid less the first column.
C19_ColumnMapRowCountUnlessTransposed ==
    Reconstructed =>
        \A e \in DOMAIN json.res.table_dict :
            Len(json.res.table_dict[e].vals) =
                IF GridTransposed THEN Len(json.res.table[1]) - 1
                ELSE Len(json.res.table) - 1

\* A column map of the transposed frame of a grid that is not square.
C19_Witness ==
    /\ Reconstructed
    /\ GridTransposed
    /\ Len(json.res.table[1]) # Len(json.res.table)

\* ---- The transposition (lines 408-418)

\* table["table"] at line 611: the grid the frame is made of
FrameGrid == RemoveEmptyRows(json.merged)

FrameBuilt == json.done /\ ~json.filled.failed /\ FrameGrid # <<>>

\* A column name of the reconstructed table holds a citation marker
MarkerInNames == \E c \in DOMAIN FrameGrid[1] : HasMarker(FrameGrid[1][c])

\* The frame is the transposed grid: the first column keeps its name and
\* holds the other column names, the values of the first column are the
\* names of the other columns, and column c of the grid is row c - 1
IsTransposed ==
    /\ ~json.frame.raised
    /\ Len(json.frame.df) = Len(FrameGrid)
    /\ json.frame.df[1].name = FrameGrid[1][1]
    /\ json.frame.df[1].vals = Tail(FrameGrid[1])
    /\ \A r \in 2..Len(FrameGrid) :
          /\ json.frame.df[r].name = FrameGrid[r][1]
          /\ json.frame.df[r].vals = [c \in 1..(Len(FrameGrid[1]) - 1) |->
                                         FrameGrid[r][c + 1]]

\* The name of the first column is the name of another column too
FirstNameRepeats ==
    \E c \in 2..Len(FrameGrid[1]) : FrameGrid[1][c] = FrameGrid[1][1]

\* The name of the first column is one of the values of that column
FirstNameAmongValues ==
    \E r \in 2..Len(FrameGrid) : FrameGrid[r][1] = FrameGrid[1][1]

\* C22 as stated: when a column name holds a citation marker, the table
\* is transposed before the references are split: the values of the first
\* column become the column names, every other column becomes a row, and
\* the column names become the values of the first column.
C22_MarkerInNamesTransposes ==
    (FrameBuilt /\ MarkerInNames) => IsTransposed

\* C22, amended: when a column name holds a citation marker, the table is
\* transposed as stated, unless the name of the first column is the name
\* of another column (the call then raises) or one of the first column's
\* values (the frame is then left as it was).
C22_MarkerInNamesTransposesUnlessNameClash ==
    (FrameBuilt /\ MarkerInNames) =>
        IF FirstNameRepeats THEN json.frame.raised
        ELSE IF FirstNameAmongValues
          THEN ~json.frame.raised /\ json.frame.df = FrameOf(FrameGrid)
        ELSE IsTransposed

\* A grid of two rows and three columns with a marker in its first row is
\* transposed.
C22_Witness ==
    /\ FrameBuilt /\ MarkerInNames
    /\ ~FirstNameRepeats /\ ~FirstNameAmongValues
    /\ Len(FrameGrid) = 2 /\ Len(FrameGrid[1]) = 3
    /\ IsTransposed

(***************************************************************************)
(*            SpecMap: get_table_row_bib_map on one column map             *)
(***************************************************************************)

\* Bound: the number of rows of the column maps tried.
MaxMapRows == 3

\* Values of the first column: a citation with a match, one without a
\* match, the paper's own row, a row that holds "standard".
MapCells ==
    { <<"{{cite:abc1234}}">>, <<"{{cite:def5678}}", "B">>, <<"{{cite:0000000}}">>,
      <<"Ours">>, Dash, <<"Standard", " ", "model">> }

\* bib_hashes: the sha of the table's cit elements, None for one without
MapBibHashes ==
    { <<"abc1234aaaa", "def5678aaaa">>,
      <<"abc1234aaaa", None, "abc1234bbbb", "def5678aaaa">> }

MapPaperId == "2308.00001"

InitMap ==
    /\ mapIn \in { [table_dict |-> <<[name |-> References, vals |-> v],
                                     [name |-> <<"Task">>,
                                      vals |-> [r \in DOMAIN v |-> <<"x">>]]>>,
                     bib_hashes |-> b, paper_id |-> MapPaperId] :
                       v \in UNION { [1..n -> MapCells] : n \in 1..MaxMapRows },
                       b \in MapBibHashes }
    /\ mapOut = NotRun
    /\ SoupIdle /\ ExtractIdle /\ AspectIdle
    /\ PoolIdle /\ RefIdle /\ HqIdle /\ CdIdle

\* lines 620-668: one call of get_table_row_bib_map
RunMap ==
    /\ mapIn # <<>>
    /\ ~mapOut.done
    /\ \E res \in {get_table_row_bib_map(mapIn.table_dict, mapIn.bib_hashes,
                                           mapIn.paper_id)} :
          mapOut' = [done |-> TRUE, raised |-> res.raised, map |-> res.map]
    /\ UNCHANGED <<mapIn, soupVars, extractVars, aspectVars, poolVars, refVars, hqVars, cdVars>>

NextMap == RunMap

SpecMap == InitMap /\ [][NextMap]_vars

MapFirstColumn == mapIn.table_dict[1].vals

\* The rows (from 1) without a citation marker and without "standard".
SelfCandidates ==
    {i \in DOMAIN MapFirstColumn :
        ~HasMarker(MapFirstColumn[i]) /\ ~AnyTok(MapFirstColumn[i], StandardToks)}

MarkerRows == {i \in DOMAIN MapFirstColumn : HasMarker(MapFirstColumn[i])}

OursEntries == {e \in DOMAIN mapOut.map : mapOut.map[e].type = "ours"}

\* C14: the list returned has at most one self entry; when there are rows
\* without a marker and without "standard", the self entry is the last
\* element, with the index of the last such row and the document id; before
\* it come the ref entries, one for each row with a marker, in row order.
C14_OneSelfEntryLast ==
    (mapOut.done /\ ~mapOut.raised) =>
        LET map == mapOut.map
            nrefs == Cardinality(MarkerRows)
        IN  /\ Cardinality(OursEntries) <= 1
            /\ Len(map) = nrefs + (IF SelfCandidates = {} THEN 0 ELSE 1)
            /\ \A e \in 1..nrefs :
                  /\ map[e].type = "ref"
                  /\ (map[e].row + 1) \in MarkerRows
                  /\ \A f \in (e + 1)..nrefs : map[e].row < map[f].row
            /\ SelfCandidates # {} =>
                  /\ map[Len(map)].type = "ours"
                  /\ map[Len(map)].row = Max(SelfCandidates) - 1
                  /\ map[Len(map)].id = mapIn.paper_id

\* Two rows are candidates, the first of them before a row with a marker.
C14_Witness ==
    /\ mapOut.done
    /\ ~mapOut.raised
    /\ Cardinality(SelfCandidates) >= 2
    /\ \E i \in SelfCandidates, m \in MarkerRows : i < m
    /\ Cardinality(OursEntries) = 1

(***************************************************************************)
(*               The table predicates (lines 34-199)                       *)
(*                                                                         *)
(* A parsed document (what soupify returns) is [tags, rows, len]: its      *)
(* table elements in document order, each named by its content (two Tag    *)
(* objects are equal, and hash alike, when their name, attributes and      *)
(* contents are), its tr elements in document order, and len(str(soup)).   *)
(* The documents of the model hold no p element.                           *)
(***************************************************************************)

\* all([not cell.text.strip() for cell in cells]), lines 92 and 119
AllEmptyRow(cells) == \A k \in DOMAIN cells : Strip(cells[k].text) = <<>>

\* len(table_soup.find_all("td"))
RECURSIVE NumTd(_)
NumTd(rows) == IF rows = <<>> THEN 0 ELSE Len(Head(rows)) + NumTd(Tail(rows))

\* lines 38-39
not_too_long_15e3(table_soup) == table_soup.len < 15000

\* lines 46-48
not_too_long_or_short(table_soup) == 398 < table_soup.len /\ table_soup.len < 15000

\* lines 55-56
has_max_2_sub_tables(table_soup) == Len(table_soup.tags) <= 2

\* lines 59-61
has_at_least_2_cols(table_soup) ==
    NumTd(table_soup.rows) >= 4 /\ Len(table_soup.rows) >= 2

\* lines 64-65
has_at_least_2_rows(table_soup) == Len(table_soup.rows) >= 2

\* lines 73-74
has_at_least_2_cites(table_soup) == Len(CiteShas(table_soup.rows)) >= 2

\* lines 86-99: the first row that is not all-empty (0 when there is none)
FirstNonEmptyRow(rows) ==
    IF \A r \in DOMAIN rows : AllEmptyRow(rows[r]) THEN 0
    ELSE CHOOSE r \in DOMAIN rows :
            /\ ~AllEmptyRow(rows[r])
            /\ \A q \in 1..(r - 1) : AllEmptyRow(rows[q])

\* lines 86-99: the loop returns True
FirstRowHasCites(rows) ==
    /\ FirstNonEmptyRow(rows) # 0
    /\ Len(RowShas(rows[FirstNonEmptyRow(rows)])) >= 2

\* line 103: row.find_all("td")[0] raises IndexError for a row of no cell
FirstColRaises(table_soup) ==
    /\ ~FirstRowHasCites(table_soup.rows)
    /\ \E r \in DOMAIN table_soup.rows : table_soup.rows[r] = <<>>

\* lines 77-104 (when line 103 does not raise)
has_cites_in_first_row_or_col(table_soup) ==
    \/ FirstRowHasCites(table_soup.rows)
    \/ Cardinality({r \in DOMAIN table_soup.rows :
                       /\ table_soup.rows[r] # <<>>
                       /\ table_soup.rows[r][1].shas # <<>>}) >= 2

\* lines 107-143
has_cites_in_rows_or_cols(table_soup) ==
    LET trs == table_soup.rows
        counted == {r \in DOMAIN trs : ~AllEmptyRow(trs[r])}
        max_num_cells == Max({0} \cup {Len(trs[r]) : r \in counted})
    IN  \/ \E r \in counted : Len(RowShas(trs[r])) >= 2
        \/ \E col_i \in 1..max_num_cells :
              Cardinality({r \in DOMAIN trs :
                              /\ col_i <= Len(trs[r])
                              /\ trs[r][col_i].shas # <<>>}) >= 2

\* lines 146-159
has_max_one_cite_per_cell(table_soup) ==
    \A r \in DOMAIN table_soup.rows :
        \A k \in DOMAIN table_soup.rows[r] : Len(table_soup.rows[r][k].shas) <= 1

\* lines 166-182
has_no_floats(table_soup) ==
    \A r \in DOMAIN table_soup.rows :
        \A k \in DOMAIN table_soup.rows[r] :
            ~AnyTok(table_soup.rows[r][k].text, FloatToks)

\* lines 185-186
has_table_cells(table_soup) ==
    \E r \in DOMAIN table_soup.rows : table_soup.rows[r] # <<>>

\* lines 189-199
has_no_figures(table_soup) ==
    \A r \in DOMAIN table_soup.rows :
        \A k \in DOMAIN table_soup.rows[r] :
            ~AnyTok(table_soup.rows[r][k].text, FigureToks)

\* lines 202-215
DEFAULT_TABLE_LABELS ==
    <<"not_too_long_15e3", "not_too_long_or_short", "has_table_cells",
      "has_at_least_2_cites", "has_max_2_sub_tables", "has_at_least_2_cols",
      "has_at_least_2_rows", "has_no_floats", "has_no_figures",
      "has_cites_in_rows_or_cols", "has_cites_in_first_row_or_col",
      "has_max_one_cite_per_cell">>

\* flter(table_soup), for flter.__name__ = name, when the call returns
Flter(name, table_soup) ==
    CASE name = "not_too_long_15e3" -> not_too_long_15e3(table_soup)
      [] name = "not_too_long_or_short" -> not_too_long_or_short(table_soup)
      [] name = "has_table_cells" -> has_table_cells(table_soup)
      [] name = "has_at_least_2_cites" -> has_at_least_2_cites(table_soup)
      [] name = "has_max_2_sub_tables" -> has_max_2_sub_tables(table_soup)
      [] name = "has_at_least_2_cols" -> has_at_least_2_cols(table_soup)
      [] name = "has_at_least_2_rows" -> has_at_least_2_rows(table_soup)
      [] name = "has_no_floats" -> has_no_floats(table_soup)
      [] name = "has_no_figures" -> has_no_figures(table_soup)
      [] name = "has_cites_in_rows_or_cols" -> has_cites_in_rows_or_cols(table_soup)
      [] name = "has_cites_in_first_row_or_col" ->
            has_cites_in_first_row_or_col(table_soup)
      [] name = "has_max_one_cite_per_cell" -> has_max_one_cite_per_cell(table_soup)

\* flter(table_soup) raises
FlterRaises(name, table_soup) ==
    name = "has_cites_in_first_row_or_col" /\ FirstColRaises(table_soup)

(***************************************************************************)
(*                  extract_valid_tables (lines 239-331)                   *)
(*                                                                         *)
(* A line of the file is a paper [paper_id, tables], tables the items of   *)
(* paper["tables"] in their order, an item [key, table, xml]: table is     *)
(* the markup string (named, "" when empty) and xml what the parser finds  *)
(* in it.                                                                  *)
(***************************************************************************)

\* lines 21-30: soupify
soupify(item) == item.xml

\* The loops of lines 293-294 and 299-303 stop at a predicate that raises,
\* the second one also at a predicate that is false.
StopsAt(name, table_soup, label_tables) ==
    \/ FlterRaises(name, table_soup)
    \/ ~label_tables /\ ~Flter(name, table_soup)

\* The position in table_filters of the last predicate called
LastCalled(table_filters, table_soup, label_tables) ==
    IF \E i \in DOMAIN table_filters :
            StopsAt(table_filters[i], table_soup, label_tables)
      THEN CHOOSE i \in DOMAIN table_filters :
            /\ StopsAt(table_filters[i], table_soup, label_tables)
            /\ \A j \in 1..(i - 1) :
                    ~StopsAt(table_filters[j], table_soup, label_tables)
      ELSE Len(table_filters)

\* The predicates called for the table, in the order of the calls
Called(table_filters, table_soup, label_tables) ==
    SubSeq(table_filters, 1, LastCalled(table_filters, table_soup, label_tables))

\* A predicate raised: the exception leaves extract_valid_tables
CallRaises(table_filters, table_soup, label_tables) ==
    /\ table_filters # <<>>
    /\ FlterRaises(table_filters[LastCalled(table_filters, table_soup, label_tables)],
                   table_soup)

\* lines 298-306: exit_early
ExitsEarly(table_filters, table_soup, label_tables) ==
    /\ ~label_tables
    /\ table_filters # <<>>
    /\ ~CallRaises(table_filters, table_soup, label_tables)
    /\ ~Flter(table_filters[LastCalled(table_filters, table_soup, label_tables)],
              table_soup)

\* lines 292-295: labels
LabelsOf(table_filters, table_soup) ==
    [n \in Range(table_filters) \cup {"len"} |->
        IF n = "len" THEN table_soup.len ELSE Flter(n, table_soup)]

\* line 311: table_soup.find("table"), None for a document of no table
FindTable(table_soup) ==
    IF table_soup.tags = <<>> THEN None ELSE table_soup.tags[1]

\* ---- SpecExtract: one call of extract_valid_tables

\* Bound: the number of tables of the file, all papers together.
MaxFileTables == 3

XmlOf(tags, rows, len) == [tags |-> tags, rows |-> rows, len |-> len]

NestedCiteRows ==
    Cell(<<"{{cite:abc1234}}", "x", "acc", "{{cite:def5678}}", "y", "f1">>, 1,
         <<"abc1234aaaa", "def5678aaaa">>)

\* The tables of the papers: [table, xml]
ExtractTables ==
    { \* a table with a second table nested in a cell of it
      [table |-> "A",
       xml |-> XmlOf(<<"A", "B">>,
                     <<HeaderRow, <<NestedCiteRows>>, CiteRow1, CiteRow2>>, 1000)],
      \* the nested table of A, as a table of its own
      [table |-> "B", xml |-> XmlOf(<<"B">>, <<CiteRow1, CiteRow2>>, 600)],
      \* one citation only, and short
      [table |-> "C", xml |-> XmlOf(<<"C">>, <<HeaderRow, CiteRow1>>, 300)],
      \* a row of no cell
      [table |-> "D",
       xml |-> XmlOf(<<"D">>, <<HeaderRow, <<>>, CiteRow1, CiteRow2>>, 800)],
      \* three tables in one markup: an empty table and table B nested in
      \* a cell
      [table |-> "F",
       xml |-> XmlOf(<<"F", "G", "B">>,
                     <<HeaderRow, <<NestedCiteRows>>, CiteRow1, CiteRow2>>, 900)],
      \* a single column of four rows
      [table |-> "S",
       xml |-> XmlOf(<<"S">>,
                     << <<Txt("Method")>>, <<Cit("{{cite:abc1234}}", "abc1234aaaa")>>,
                        <<Cit("{{cite:def5678}}", "def5678aaaa")>>, <<Txt("x")>> >>,
                     500)],
      \* empty markup
      [table |-> "", xml |-> XmlOf(<<>>, <<>>, 0)] }

\* The ways of cutting n tables into papers: the sizes of the papers
RECURSIVE PaperSizes(_)
PaperSizes(n) ==
    IF n = 0 THEN {<<>>}
    ELSE UNION { {<<k>> \o rest : rest \in PaperSizes(n - k)} : k \in 1..n }

\* The papers that hold the tables flat, cut at sizes; from is the number
\* of tables of the papers before
RECURSIVE PapersOf(_, _, _, _)
PapersOf(flat, sizes, from, paper_i) ==
    IF sizes = <<>> THEN <<>>
    ELSE <<[paper_id |-> paper_i,
            tables |-> [k \in 1..Head(sizes) |->
                           [key |-> k, table |-> flat[from + k].table,
                            xml |-> flat[from + k].xml]]]>>
         \o PapersOf(flat, Tail(sizes), from + Head(sizes), paper_i + 1)

ExtractFiles ==
    UNION { { PapersOf(flat, sizes, 0, 1) :
                flat \in [1..n -> ExtractTables], sizes \in PaperSizes(n) } :
            n \in 1..MaxFileTables }

ExtractFilterLists == {DEFAULT_TABLE_LABELS, DEFAULT_TABLE_FILTERS}

\* lines 276, 282, 285: valid_tables = [], added_tables = set(),
\* filtered_tables = {} (at the first table of the first paper)
InitExtract ==
    /\ extractIn \in { [papers |-> f, table_filters |-> t, label_tables |-> l] :
                         f \in ExtractFiles, t \in ExtractFilterLists,
                         l \in BOOLEAN }
    /\ extract = [pc |-> "tables", paper_i |-> 1, table_i |-> 1,
                  added_tables |-> {}, filtered_tables |-> <<>>,
                  valid_tables |-> <<>>, called |-> <<>>]
    /\ SoupIdle /\ MapIdle /\ AspectIdle
    /\ PoolIdle /\ RefIdle /\ HqIdle /\ CdIdle

ExtractFrame == UNCHANGED <<extractIn, soupVars, mapVars, aspectVars, poolVars, refVars,
                            hqVars, cdVars>>

\* line 286: the loop is at an item of paper["tables"]
AtItem ==
    /\ extractIn # <<>>
    /\ extract.pc = "tables"
    /\ extract.table_i <= Len(extractIn.papers[extract.paper_i].tables)

Item == extractIn.papers[extract.paper_i].tables[extract.table_i]

CallsOf(item) ==
    [k \in DOMAIN Called(extractIn.table_filters, soupify(item),
                         extractIn.label_tables) |->
        [paper_i |-> extract.paper_i, key |-> item.key,
         flter |-> Called(extractIn.table_filters, soupify(item),
                          extractIn.label_tables)[k]]]

\* line 287: the markup is empty, the item is passed over
EmptyMarkup ==
    /\ AtItem
    /\ Item.table = ""
    /\ extract' = [extract EXCEPT !.table_i = @ + 1]
    /\ ExtractFrame

\* lines 294 and 300: a predicate raises, and so does extract_valid_tables
PredicateRaises ==
    /\ AtItem
    /\ Item.table # ""
    /\ CallRaises(extractIn.table_filters, soupify(Item), extractIn.label_tables)
    /\ extract' = [extract EXCEPT !.pc = "raised",
                                  !.called = @ \o CallsOf(Item)]
    /\ ExtractFrame

\* lines 298-306: a predicate is false in filtering mode
ExitEarly ==
    /\ AtItem
    /\ Item.table # ""
    /\ ExitsEarly(extractIn.table_filters, soupify(Item), extractIn.label_tables)
    /\ extract' = [extract EXCEPT !.table_i = @ + 1,
                                  !.called = @ \o CallsOf(Item)]
    /\ ExtractFrame

Passes(item) ==
    /\ item.table # ""
    /\ ~CallRaises(extractIn.table_filters, soupify(item), extractIn.label_tables)
    /\ ~ExitsEarly(extractIn.table_filters, soupify(item), extractIn.label_tables)

\* lines 311-312: the first table element is in added_tables
SkipAdded ==
    /\ AtItem
    /\ Passes(Item)
    /\ FindTable(soupify(Item)) \in extract.added_tables
    /\ extract' = [extract EXCEPT !.table_i = @ + 1,
                                  !.called = @ \o CallsOf(Item)]
    /\ ExtractFrame

\* lines 313-320: every table element goes to added_tables, the item to
\* filtered_tables, with its labels in labeling mode
KeepTable ==
    /\ AtItem
    /\ Passes(Item)
    /\ FindTable(soupify(Item)) \notin extract.added_tables
    /\ extract' = [extract EXCEPT
          !.table_i = @ + 1,
          !.called = @ \o CallsOf(Item),
          !.added_tables = @ \cup Range(soupify(Item).tags),
          !.filtered_tables = Append(@,
              [key |-> Item.key, table |-> Item.table, soup |-> soupify(Item),
               labels |-> IF extractIn.label_tables
                            THEN LabelsOf(extractIn.table_filters, soupify(Item))
                            ELSE NoLabels])]
    /\ ExtractFrame

\* lines 322-325 and 283-285: the paper goes to valid_tables when
\* filtered_tables is not empty; the next line is read
EndPaper ==
    /\ extractIn # <<>>
    /\ extract.pc = "tables"
    /\ extract.table_i > Len(extractIn.papers[extract.paper_i].tables)
    /\ extract' = [extract EXCEPT
          !.valid_tables =
              IF extract.filtered_tables # <<>>
                THEN Append(@, [paper_id |-> extractIn.papers[extract.paper_i].paper_id,
                                tables |-> extract.filtered_tables])
                ELSE @,
          !.filtered_tables = <<>>,
          !.table_i = 1,
          !.paper_i = @ + 1,
          !.pc = IF extract.paper_i = Len(extractIn.papers)
                   THEN "return" ELSE "tables"]
    /\ ExtractFrame

\* line 331: return valid_tables
ReturnValidTables ==
    /\ extractIn # <<>>
    /\ extract.pc = "return"
    /\ extract' = [extract EXCEPT !.pc = "done"]
    /\ ExtractFrame

NextExtract ==
    \/ EmptyMarkup
    \/ PredicateRaises
    \/ ExitEarly
    \/ SkipAdded
    \/ KeepTable
    \/ EndPaper
    \/ ReturnValidTables

SpecExtract == InitExtract /\ [][NextExtract]_vars

\* ---- Properties of extract_valid_tables

ExtractOver == extractIn # <<>> /\ extract.pc = "done"

\* The items of the file, by paper and position in the paper
ItemAt(p, k) == extractIn.papers[p].tables[k]

\* What the call returned: nothing when it raised
ReturnedTables == IF extract.pc = "done" THEN extract.valid_tables ELSE <<>>

ReturnedEntry(p, k, e) ==
    /\ e.paper_id = extractIn.papers[p].paper_id
    /\ \E t \in DOMAIN e.tables : e.tables[t].key = ItemAt(p, k).key

KeptAt(p, k) == \E v \in DOMAIN ReturnedTables : ReturnedEntry(p, k, ReturnedTables[v])

\* The table elements nested in the outermost one of the item
NestedTags(p, k) == Range(Tail(soupify(ItemAt(p, k)).tags))

\* The item's table was seen nested in a table kept earlier in its paper
NestedInKeptOfPaper(p, k) ==
    \E j \in 1..(k - 1) :
        /\ KeptAt(p, j)
        /\ FindTable(soupify(ItemAt(p, k))) \in NestedTags(p, j)

\* C15: duplicate suppression is scoped to one document.  When the call
\* has returned, a table that passed the selected predicates is missing
\* from the result only if its table was a nested sub-table of a table
\* kept earlier in the same paper; a table kept in another paper causes no
\* skip, and a table that is not such a sub-table is always kept.
C15_DedupScopedToDocument ==
    ExtractOver =>
        \A p \in DOMAIN extractIn.papers :
            \A k \in DOMAIN extractIn.papers[p].tables :
                Passes(ItemAt(p, k)) => (KeptAt(p, k) \/ NestedInKeptOfPaper(p, k))

\* The labels stored for the item hold a result for every predicate
LabeledAt(p, k) ==
    \E v \in DOMAIN ReturnedTables :
        /\ ReturnedTables[v].paper_id = extractIn.papers[p].paper_id
        /\ \E t \in DOMAIN ReturnedTables[v].tables :
              /\ ReturnedTables[v].tables[t].key = ItemAt(p, k).key
              /\ ReturnedTables[v].tables[t].labels # NoLabels
              /\ Range(extractIn.table_filters)
                    \subseteq DOMAIN ReturnedTables[v].tables[t].labels

\* The item's table is an element of a table kept before it in the file
SuppressedAt(p, k) ==
    \E q \in 1..p :
        \E j \in DOMAIN extractIn.papers[q].tables :
            /\ q < p \/ j < k
            /\ KeptAt(q, j)
            /\ FindTable(soupify(ItemAt(p, k))) \in Range(soupify(ItemAt(q, j)).tags)

\* The predicates called for the item, in the order of the calls
CalledFor(p, k) ==
    SelectSeq(extract.called,
              LAMBDA c : c.paper_i = p /\ c.key = ItemAt(p, k).key)

\* The position of the first predicate of the list that is false for the
\* item (0 when none is)
FirstFalse(p, k) ==
    LET false == {i \in DOMAIN extractIn.table_filters :
                    /\ ~FlterRaises(extractIn.table_filters[i], soupify(ItemAt(p, k)))
                    /\ ~Flter(extractIn.table_filters[i], soupify(ItemAt(p, k)))}
    IN  IF false = {} THEN 0 ELSE CHOOSE i \in false : \A j \in false : i <= j

ExtractEnded == extractIn # <<>> /\ extract.pc \in {"done", "raised"}

\* C16: in labeling mode every table of non-empty markup (that duplicate
\* suppression does not pass over) is returned with a stored result for
\* every supplied predicate, whatever the results are; in filtering mode
\* the predicates are called in the order of the list, the calls stop at
\* the first one that is false, and the table is then not returned.
C16_LabelingKeepsFilteringStopsEarly ==
    ExtractEnded =>
        \A p \in DOMAIN extractIn.papers :
            \A k \in DOMAIN extractIn.papers[p].tables :
                ItemAt(p, k).table # "" =>
                    /\ extractIn.label_tables =>
                          (LabeledAt(p, k) \/ SuppressedAt(p, k))
                    /\ (~extractIn.label_tables /\ extract.pc = "done") =>
                          /\ [i \in DOMAIN CalledFor(p, k) |-> CalledFor(p, k)[i].flter]
                                = SubSeq(extractIn.table_filters, 1,
                                         IF FirstFalse(p, k) = 0
                                           THEN Len(extractIn.table_filters)
                                           ELSE FirstFalse(p, k))
                          /\ FirstFalse(p, k) # 0 => ~KeptAt(p, k)

\* ---- has_at_least_2_cols (lines 59-61)

\* The labels stored for the item, when the call returned it labeled.
StoredLabels(p, k) ==
    LET v == CHOOSE w \in DOMAIN ReturnedTables : ReturnedEntry(p, k, ReturnedTables[w])
        t == CHOOSE u \in DOMAIN ReturnedTables[v].tables :
                 ReturnedTables[v].tables[u].key = ItemAt(p, k).key
    IN  ReturnedTables[v].tables[t].labels

\* The table has at least 2 columns and at least 2 rows, the number of
\* columns being the highest of the rows' numbers of cells and sums of cols
\* attributes.
TwoColumnsTwoRows(rows) == Len(rows) >= 2 /\ NumColsOf(rows) >= 2

\* C28: has_at_least_2_cols is true for a parsed table exactly when the
\* table has at least 2 columns and at least 2 rows, the column count being
\* the maximum over the rows of the number of cells and of the colspan sum;
\* it is false for every table of a single column.
C28_TwoColsExactly ==
    (ExtractEnded /\ extractIn.label_tables) =>
        \A p \in DOMAIN extractIn.papers :
            \A k \in DOMAIN extractIn.papers[p].tables :
                (ItemAt(p, k).table # "" /\ LabeledAt(p, k)) =>
                    (StoredLabels(p, k)["has_at_least_2_cols"]
                        <=> TwoColumnsTwoRows(soupify(ItemAt(p, k)).rows))

\* ---- Filtering mode and the two-stage path of run() (lines 1024-1070)

\* The items of the file in the order the loops of lines 283-286 meet them:
\* [p, k] for item k of paper p.
FileItems ==
    LET F[p \in 0..Len(extractIn.papers)] ==
            IF p = 0 THEN <<>>
            ELSE F[p - 1] \o [k \in DOMAIN extractIn.papers[p].tables |->
                                 [p |-> p, k |-> k]]
    IN  F[Len(extractIn.papers)]

\* lines 282-320 as one run over the items: kept is the set of the items
\* that reach filtered_tables, raised tells that a predicate raised.
RECURSIVE KeptLoop(_, _, _, _, _)
KeptLoop(items, table_filters, label_tables, added_tables, kept) ==
    IF items = <<>> THEN [raised |-> FALSE, kept |-> kept]
    ELSE LET item == ItemAt(Head(items).p, Head(items).k)
             table_soup == soupify(item)
         IN  IF item.table = ""
               THEN KeptLoop(Tail(items), table_filters, label_tables,
                             added_tables, kept)
             ELSE IF CallRaises(table_filters, table_soup, label_tables)
               THEN [raised |-> TRUE, kept |-> {}]
             ELSE IF \/ ExitsEarly(table_filters, table_soup, label_tables)
                     \/ FindTable(table_soup) \in added_tables
               THEN KeptLoop(Tail(items), table_filters, label_tables,
                             added_tables, kept)
             ELSE KeptLoop(Tail(items), table_filters, label_tables,
                           added_tables \cup Range(table_soup.tags),
                           kept \cup {Head(items)})

\* run(), line 1027, then create_dataset, lines 680-689: every table is
\* labeled with DEFAULT_TABLE_LABELS, and the Assembler drops the tables
\* whose stored label is false for a predicate of the subset.
TwoStageKept(subset) ==
    LET labeled_tables == KeptLoop(FileItems, DEFAULT_TABLE_LABELS, TRUE, {}, {})
    IN  {i \in labeled_tables.kept :
            ~ShouldSkipTable(
                [labels |-> LabelsOf(DEFAULT_TABLE_LABELS, soupify(ItemAt(i.p, i.k)))],
                subset)}

\* The items the call in filtering mode returned.
FilteringKept == {i \in Range(FileItems) : KeptAt(i.p, i.k)}

\* C30: for the same file and the same predicate subset, the set of tables
\* kept by filtering mode equals the set of tables kept by the two-stage
\* path of the driver: labeling every table with all predicates, then
\* dropping in the Assembler each table whose stored label is false for
\* some predicate of the subset.
C30_FilteringEqualsLabelThenDrop ==
    (ExtractEnded /\ ~extractIn.label_tables) =>
        FilteringKept = TwoStageKept(extractIn.table_filters)

(***************************************************************************)
(*                    main(): the multi-process driver                     *)
(***************************************************************************)

\* Bounds of the pool model.
MaxFiles == 3
NumProcesses == 2

\* A file name is the sequence of its dot-separated parts:
\* "2306.00000-17847v1.jsonl.gz" is <<"2306", "00000-17847v1", "jsonl", "gz">>.
FileNames ==
    { <<"2306", "jsonl", "gz">>,
      <<"2306", "00000-17847v1", "jsonl", "gz">>,
      <<"2307", "jsonl", "gz">>,
      <<"done", "log">> }

BLACK_LIST == { <<"done", "log">>, <<"log", "txt">> }

\* The output kinds of run(), in the order run() writes them.
OutKinds == <<"labeled", "filtered", "high_quality", "high_quality_schemes",
              "mid_quality">>

\* in_path.split(".")[0]
SplitDot0(name) == name[1]

\* os.path.join(args.out_<kind>_path, in_path.split(".")[0]) + ".jsonl"
OutPath(kind, name) == <<kind, SplitDot0(name), "jsonl">>

\* Sequences of distinct names: what os.listdir can return.
Listings ==
    { s \in UNION { [1..n -> FileNames] : n \in 1..MaxFiles } :
        \A i, j \in DOMAIN s : i # j => s[i] # s[j] }

\* The pool driver touches none of the other operations' state.
PoolFrame == UNCHANGED <<refVars, hqVars, cdVars, auxVars>>

Active(w) == w.st \in {"running", "writing"}

InitPool ==
    /\ listing \in Listings
    /\ results = <<>>
    /\ wst = <<>>
    /\ mainpc = "submit"
    /\ idx = 1
    /\ RefIdle /\ HqIdle /\ CdIdle /\ AuxIdle

\* main, lines 1262-1306: one turn of the loop over os.listdir.
Submit ==
    /\ mainpc = "submit"
    /\ idx <= Len(listing)
    /\ IF listing[idx] \in BLACK_LIST
         THEN UNCHANGED <<results, wst>>
         ELSE /\ results' = Append(results, listing[idx])
              /\ wst' = Append(wst, [st |-> "queued", kind |-> 1])
    /\ idx' = idx + 1
    /\ UNCHANGED <<listing, mainpc>>
    /\ PoolFrame

\* main, line 1307: the loop over os.listdir is over, the loop over results starts.
SubmitDone ==
    /\ mainpc = "submit"
    /\ idx > Len(listing)
    /\ mainpc' = "get"
    /\ idx' = 1
    /\ UNCHANGED <<listing, results, wst>>
    /\ PoolFrame

PoolAlive == mainpc \in {"submit", "get"}

\* A pool process takes the oldest queued task and calls run() on it.
StartTask(i) ==
    /\ PoolAlive
    /\ wst[i].st = "queued"
    /\ \A j \in 1..(i - 1) : wst[j].st # "queued"
    /\ Cardinality({j \in DOMAIN wst : Active(wst[j])}) < NumProcesses
    /\ wst' = [wst EXCEPT ![i].st = "running"]
    /\ UNCHANGED <<listing, results, mainpc, idx>>
    /\ PoolFrame

\* run, lines 1053, 1072, 1154, 1183, 1208: open(out_..._path, "w").
OpenOut(i) ==
    /\ PoolAlive
    /\ wst[i].st = "running"
    /\ wst' = [wst EXCEPT ![i].st = "writing"]
    /\ UNCHANGED <<listing, results, mainpc, idx>>
    /\ PoolFrame

\* The with block of an output ends: the file is closed, run() goes on to the
\* next output kind or returns.
CloseOut(i) ==
    /\ PoolAlive
    /\ wst[i].st = "writing"
    /\ wst' = IF wst[i].kind = Len(OutKinds)
                THEN [wst EXCEPT ![i].st = "done"]
                ELSE [wst EXCEPT ![i] = [st |-> "running", kind |-> @.kind + 1]]
    /\ UNCHANGED <<listing, results, mainpc, idx>>
    /\ PoolFrame

\* run() raises while working on its file (a malformed line, a KeyError of
\* get_table_row_bib_map, ...): the pool stores the exception as the result.
FailTask(i) ==
    /\ PoolAlive
    /\ wst[i].st = "running"
    /\ wst' = [wst EXCEPT ![i].st = "failed"]
    /\ UNCHANGED <<listing, results, mainpc, idx>>
    /\ PoolFrame

\* Pool.__exit__ calls terminate(): tasks not finished are stopped.
Terminate(w) ==
    [i \in DOMAIN w |->
        IF w[i].st \in {"queued", "running", "writing"}
          THEN [w[i] EXCEPT !.st = "killed"]
          ELSE w[i]]

\* main, lines 1307-1308: result.get() returns once the task is done.
GetOk ==
    /\ mainpc = "get"
    /\ idx <= Len(results)
    /\ wst[idx].st = "done"
    /\ idx' = idx + 1
    /\ UNCHANGED <<listing, results, wst, mainpc>>
    /\ PoolFrame

\* main, line 1308: result.get() re-raises the task's exception in the parent;
\* the exception leaves the with block of line 1260, which terminates the pool.
GetRaises ==
    /\ mainpc = "get"
    /\ idx <= Len(results)
    /\ wst[idx].st = "failed"
    /\ mainpc' = "raised"
    /\ wst' = Terminate(wst)
    /\ UNCHANGED <<listing, results, idx>>
    /\ PoolFrame

\* main, lines 1309-1310: pool.close(), pool.join().
CloseJoin ==
    /\ mainpc = "get"
    /\ idx > Len(results)
    /\ mainpc' = "closed"
    /\ UNCHANGED <<listing, results, wst, idx>>
    /\ PoolFrame

NextPool ==
    \/ Submit
    \/ SubmitDone
    \/ \E i \in DOMAIN wst : StartTask(i)
    \/ \E i \in DOMAIN wst : OpenOut(i)
    \/ \E i \in DOMAIN wst : CloseOut(i)
    \/ \E i \in DOMAIN wst : FailTask(i)
    \/ GetOk
    \/ GetRaises
    \/ CloseJoin

SpecPool == InitPool /\ [][NextPool]_vars

\* C3: in multi-process mode a failure while processing one input file stays
\* within that file's unit of work: once the parent is through, every other
\* file's worker has run to completion (and written its outputs).
C3_FailureStaysInItsFile ==
    mainpc \in {"raised", "closed"} =>
        \A i \in DOMAIN wst : wst[i].st \in {"done", "failed"}

\* C4: no two concurrently running workers have the same output path open
\* for writing.
C4_DistinctOutputPaths ==
    \A i, j \in DOMAIN wst :
        (i # j /\ wst[i].st = "writing" /\ wst[j].st = "writing")
            => OutPath(OutKinds[wst[i].kind], results[i])
                 # OutPath(OutKinds[wst[j].kind], results[j])

=============================================================================
